---------------------------- MODULE Spec2Model ----------------------------
(***************************************************************************)
(* A model of StyleScanner (src/StyleScanner.cpp): the file held as a      *)
(* sequence of lines, the four scanning passes that readFile runs over it  *)
(* (scanCommentLines, scanNewTypeDefs, scanScopeLevels, scanScopeLabels),  *)
(* and the tokenizer they are built on.                                    *)
(*                                                                         *)
(* A line is a sequence of characters, a character a one-character string. *)
(* Positions are the 0-based positions of the C++ code: the character at   *)
(* position p of s is s[p + 1].                                            *)
(***************************************************************************)
EXTENDS Integers, Sequences, FiniteSets, TLC

(***************************************************************************)
(* Bounds of the model.                                                    *)
(***************************************************************************)
\* The longest file the scope specification reads, in lines.
MaxLines == 4

\* The longest file the comment specification reads, in lines.
MaxCommentLines == 4
MaxRescanLines == 3
MaxTokLen == 4
MaxEmptyCalls == 2
MaxTypeLines == 3
MaxCheckLines == 2
MaxBothLines == 3
MaxArgs == 3
MaxLengthLines == 4
MaxLabelLines == 4
MaxAbortLines == 3
MaxHeaderLines == 2
MaxRunOnLines == 3

(***************************************************************************)
(* Program constants.                                                      *)
(***************************************************************************)
NO_COMMENT == 0
C_COMMENT == 1
CPP_COMMENT == 2

SEMICOLON == ";"
LEFT_BRACE == "{"
RIGHT_BRACE == "}"

C_COMMENT_START == <<"/", "*">>
C_COMMENT_END == <<"*", "/">>
DOUBLE_SLASH == <<"/", "/">>

(***************************************************************************)
(* The character classes of <cctype> in the "C" locale.  CtlChar stands    *)
(* for the byte 0x01, a character that is in none of the classes.  The     *)
(* grave accent, a punctuation character, is left out of PunctChars: it    *)
(* cannot be written in a string here, and no line of the model holds it.  *)
(***************************************************************************)
CtlChar == "^A"

SpaceChars == {" ", "\t"}

DigitChars == {"0", "1", "2", "3", "4", "5", "6", "7", "8", "9"}

AlphaChars ==
    {"a", "b", "c", "d", "e", "f", "g", "h", "i", "j", "k", "l", "m",
     "n", "o", "p", "q", "r", "s", "t", "u", "v", "w", "x", "y", "z",
     "A", "B", "C", "D", "E", "F", "G", "H", "I", "J", "K", "L", "M",
     "N", "O", "P", "Q", "R", "S", "T", "U", "V", "W", "X", "Y", "Z"}

PunctChars ==
    {"!", "\"", "#", "$", "%", "&", "'", "(", ")", "*", "+", ",", "-",
     ".", "/", ":", ";", "<", "=", ">", "?", "@", "[", "\\", "]", "^",
     "_", "{", "|", "}", "~"}

isspace(c) == c \in SpaceChars
isdigit(c) == c \in DigitChars
isalpha(c) == c \in AlphaChars
isalnum(c) == isalpha(c) \/ isdigit(c)
ispunct(c) == c \in PunctChars

(***************************************************************************)
(* Utility functions.                                                      *)
(***************************************************************************)
getLength(line) == Len(line)

getSize(vec) == Len(vec)

\* The character at 0-based position pos.
CharAt(s, pos) == s[pos + 1]

\* s.substr(start, count)
substr(s, start, count) == SubSeq(s, start + 1, start + count)

\* vector::resize(n) of a vector of int: the first n entries are kept and
\* the new entries are value-initialised.
resize(vec, n) == [k \in 1..n |-> IF k <= Len(vec) THEN vec[k] ELSE 0]

RECURSIVE FirstNonspaceFrom(_, _)
FirstNonspaceFrom(line, k) ==
    IF k >= getLength(line) THEN -1
    ELSE IF ~isspace(CharAt(line, k)) THEN k
    ELSE FirstNonspaceFrom(line, k + 1)

getFirstNonspacePos(line) == FirstNonspaceFrom(line, 0)

RECURSIVE LastNonspaceFrom(_, _)
LastNonspaceFrom(line, k) ==
    IF k < 0 THEN -1
    ELSE IF ~isspace(CharAt(line, k)) THEN k
    ELSE LastNonspaceFrom(line, k - 1)

getLastNonspacePos(line) == LastNonspaceFrom(line, getLength(line) - 1)

isBlank(line) == getFirstNonspacePos(line) = -1

\* s.rfind(t, 0) == 0
stringStartsWith(s, t) ==
    /\ Len(s) >= Len(t)
    /\ SubSeq(s, 1, Len(t)) = t

\* s.find(t, s.length() - t.length()) != string::npos.  The start position
\* is a size_t: when s is shorter than t the difference wraps to a position
\* beyond the end of s and find returns npos.
stringEndsWith(s, t) ==
    IF Len(s) < Len(t) THEN FALSE
    ELSE \E p \in (Len(s) - Len(t))..(Len(s) - Len(t)) : substr(s, p, Len(t)) = t

(***************************************************************************)
(* The tokenizer.                                                          *)
(***************************************************************************)
\* The end of the run of characters of class InRun(_) that starts at pos.
RECURSIVE RunEnd(_, _, _)
RunEnd(s, pos, kind) ==
    IF pos < getLength(s)
       /\ CASE kind = "word" -> isalnum(CharAt(s, pos)) \/ CharAt(s, pos) = "_"
            [] kind = "number" -> isdigit(CharAt(s, pos)) \/ CharAt(s, pos) = "."
            [] OTHER -> ispunct(CharAt(s, pos))
    THEN RunEnd(s, pos + 1, kind)
    ELSE pos

\* findTokenEnd as it would be if an underscore did not start a word.
findTokenEnd_UnderscorePunct(s, pos) ==
    IF isalpha(CharAt(s, pos)) THEN RunEnd(s, pos, "word")
    ELSE IF isdigit(CharAt(s, pos)) THEN RunEnd(s, pos, "number")
    ELSE IF ispunct(CharAt(s, pos)) THEN RunEnd(s, pos, "punct")
    ELSE pos

findTokenEnd(s, pos) ==
    IF isalpha(CharAt(s, pos)) \/ CharAt(s, pos) = "_" THEN RunEnd(s, pos, "word")
    ELSE IF isdigit(CharAt(s, pos)) THEN RunEnd(s, pos, "number")
    ELSE IF ispunct(CharAt(s, pos)) THEN RunEnd(s, pos, "punct")
    ELSE pos

RECURSIVE EatSpaces(_, _)
EatSpaces(s, pos) ==
    IF pos < getLength(s) /\ isspace(CharAt(s, pos))
    THEN EatSpaces(s, pos + 1)
    ELSE pos

\* getNextToken as it would be if pos were left on the last character of a
\* token of two characters or more.
getNextToken_StopsShort(s, pos) ==
    LET start == EatSpaces(s, pos) IN
    IF start >= getLength(s) THEN [token |-> <<>>, pos |-> start]
    ELSE LET end == findTokenEnd(s, start) IN
         [token |-> substr(s, start, end - start),
          pos |-> IF end - start > 1 THEN end - 1 ELSE end]

\* The token returned and the value pos is left with.
getNextToken(s, pos) ==
    LET start == EatSpaces(s, pos) IN
    IF start >= getLength(s) THEN [token |-> <<>>, pos |-> start]
    ELSE LET end == findTokenEnd(s, start) IN
         [token |-> substr(s, start, end - start), pos |-> end]

getFirstToken(s) == getNextToken(s, 0).token

RECURSIVE LastTokenLoop(_, _, _)
LastTokenLoop(s, lastToken, next) ==
    IF next.token # <<>>
    THEN LastTokenLoop(s, next.token, getNextToken(s, next.pos))
    ELSE lastToken

getLastToken(s) == LastTokenLoop(s, <<>>, getNextToken(s, 0))

(***************************************************************************)
(* Predicates on lines.                                                    *)
(***************************************************************************)
isLineStartCloseBrace(line) ==
    LET firstPos == getFirstNonspacePos(line) IN
    firstPos >= 0 /\ CharAt(line, firstPos) = RIGHT_BRACE

LABELS ==
    { <<"c", "a", "s", "e">>,
      <<"d", "e", "f", "a", "u", "l", "t">>,
      <<"p", "u", "b", "l", "i", "c">>,
      <<"p", "r", "i", "v", "a", "t", "e">>,
      <<"p", "r", "o", "t", "e", "c", "t", "e", "d">> }

isLineLabel(line) == getFirstToken(line) \in LABELS

isClassKeyword(s) ==
    \/ s = <<"c", "l", "a", "s", "s">>
    \/ s = <<"s", "t", "r", "u", "c", "t">>

(***************************************************************************)
(* The state of a StyleScanner object, and the position of readFile in it. *)
(***************************************************************************)
VARIABLES
    fileLines,        \* vector<string> fileLines
    newTypes,         \* vector<string> newTypes
    commentLines,     \* vector<int> commentLines
    scopeLevels,      \* vector<int> scopeLevels
    anyErrors,        \* bool anyErrors
    printed,          \* the kinds of line checkErrors has written to cout
    pc,               \* the statement readFile is at
    i,                \* the loop index of the pass that is running
    iTypes,           \* the loop index of scanNewTypeDefs, when it runs
                      \* beside another pass
    inCstyleComment,  \* local of scanCommentLines
    scopeLevel,       \* local of scanScopeLevels
    labelLevel,       \* local of scanScopeLabels
    levelsOut,        \* scopeLevels as scanScopeLevels returned it
    tokLine,          \* the string s that a caller hands to getNextToken
    tokStart,         \* the pos of the caller's first call
    tokPos,           \* the caller's pos
    tokOut,           \* the tokens returned to the caller so far
    asked,            \* the predicate called last and its argument
    answer,           \* what that call returned
    argv,             \* the arguments of main after the program name
    count,            \* the loop index of parseArgs
    aborted,          \* an assertion has failed
    fileName,         \* string fileName
    exitAfterArgs,    \* bool exitAfterArgs
    doFunctionCommentCheck,  \* bool doFunctionCommentCheck
    doFunctionLengthCheck,   \* bool doFunctionLengthCheck
    inClassHeader,    \* local of checkFunctionLength
    errorLines        \* local of checkFunctionLength

\* The variables of a caller of getNextToken.
tokVars == <<tokLine, tokStart, tokPos, tokOut>>

\* The arguments of main and what parseArgs makes of them.
argVars == <<argv, count, aborted, fileName, exitAfterArgs,
             doFunctionCommentCheck, doFunctionLengthCheck>>

\* The locals of checkFunctionLength.
lengthVars == <<inClassHeader, errorLines>>

\* The variables of the callers of the predicates and of the checks.
extraVars == <<asked, answer, argVars, lengthVars>>

\* What the passes of readFile leave alone.
others == <<anyErrors, printed, iTypes, tokVars, extraVars>>

vars == <<fileLines, newTypes, commentLines, scopeLevels, pc, i,
          inCstyleComment, scopeLevel, labelLevel, levelsOut, others>>

locals == <<inCstyleComment, scopeLevel, labelLevel>>

\* The line at 0-based index k, and the entries of the vectors for it.
Line(k) == fileLines[k + 1]

\* A StyleScanner as constructed.
MemberInit ==
    /\ fileLines = <<>>
    /\ newTypes = <<>>
    /\ commentLines = <<>>
    /\ scopeLevels = <<>>
    /\ anyErrors = FALSE
    /\ printed = {}
    /\ i = 0
    /\ iTypes = 0
    /\ inCstyleComment = FALSE
    /\ scopeLevel = 0
    /\ labelLevel = 0
    /\ levelsOut = <<>>
    /\ asked = <<>>
    /\ answer = FALSE
    /\ count = 1
    /\ aborted = FALSE
    /\ fileName = <<>>
    /\ exitAfterArgs = FALSE
    /\ doFunctionCommentCheck = TRUE
    /\ doFunctionLengthCheck = TRUE
    /\ inClassHeader = FALSE
    /\ errorLines = <<>>

\* The arguments are parsed and gave a file name: main calls readFile.
ScannerInit == MemberInit /\ pc = "readFile"

Init ==
    /\ ScannerInit
    /\ argv = <<>>
    /\ tokLine = <<>>
    /\ tokStart = 0
    /\ tokPos = 0
    /\ tokOut = <<>>

(***************************************************************************)
(* The files read.  A file is a sequence of lines drawn from a vocabulary; *)
(* readFile pushes one line per getline call until eof, so that a file     *)
(* that opens gives at least one line.                                     *)
(***************************************************************************)
RECURSIVE FilesOfLength(_, _)
FilesOfLength(vocab, n) ==
    IF n = 0 THEN { <<>> }
    ELSE { Append(f, l) : f \in FilesOfLength(vocab, n - 1), l \in vocab }

Files(vocab, maxLen) == UNION { FilesOfLength(vocab, n) : n \in 1..maxLen }

\* Lines of code with braces and a label, and comment lines holding braces.
ScopeVocab ==
    { <<"{">>,
      <<"\t", "}">>,
      <<"x", ";">>,
      <<"c", "a", "s", "e", " ", "1", ":">>,
      <<"}", " ", "{">>,
      <<"{", " ", "{">>,
      <<"/", "*", " ", "{">>,
      <<"}", " ", "*", "/">> }

\* Lines that open, close and hold comments.
CommentVocab ==
    { <<"/", "*", " ", "a">>,
      <<"a", " ", "*", "/">>,
      <<"/", "/", " ", "a">>,
      <<"a", ";">>,
      <<"/", "*", " ", "a", " ", "*", "/">>,
      <<"/", "/", " ", "a", " ", "*", "/">>,
      <<"a", " ", "*", "/", " ", "a">>,
      <<"a", ";", "*", "/">> }

(***************************************************************************)
(* readFile: the lines are read, then the four passes run in order.        *)
(***************************************************************************)
ReadFile(files) ==
    /\ pc = "readFile"
    /\ \E f \in files : fileLines' = f
    /\ pc' = "scanCommentLines"
    /\ UNCHANGED <<others, newTypes, commentLines, scopeLevels, i, locals, levelsOut>>

(***************************************************************************)
(* scanCommentLines                                                        *)
(***************************************************************************)
\* scanCommentLinesBody as it would be if the end of the comment were
\* looked for before the line is tagged.
scanCommentLinesBody_ClearsFirst(line, tag, inComment) ==
    LET firstToken == getFirstToken(line)
        lastToken == getLastToken(line)
        entered == IF stringStartsWith(firstToken, C_COMMENT_START)
                   THEN TRUE ELSE inComment
        left == IF stringEndsWith(lastToken, C_COMMENT_END)
                THEN FALSE ELSE entered
        cTag == IF left THEN C_COMMENT ELSE tag
        cppTag == IF stringStartsWith(firstToken, DOUBLE_SLASH)
                  THEN CPP_COMMENT ELSE cTag
    IN [tag |-> cppTag, inCstyleComment |-> left]

\* scanCommentLinesBody as it would be if the line-comment test were skipped
\* inside a block comment (else if for if).
scanCommentLinesBody_BlockWins(line, tag, inComment) ==
    LET firstToken == getFirstToken(line)
        lastToken == getLastToken(line)
        entered == IF stringStartsWith(firstToken, C_COMMENT_START)
                   THEN TRUE ELSE inComment
        cTag == IF entered THEN C_COMMENT ELSE tag
        left == IF stringEndsWith(lastToken, C_COMMENT_END)
                THEN FALSE ELSE entered
        cppTag == IF ~entered /\ stringStartsWith(firstToken, DOUBLE_SLASH)
                  THEN CPP_COMMENT ELSE cTag
    IN [tag |-> cppTag, inCstyleComment |-> left]

\* Some token of the line from pos on ends with t.
RECURSIVE SomeTokenEndsWith(_, _, _)
SomeTokenEndsWith(s, next, t) ==
    IF next.token = <<>> THEN FALSE
    ELSE stringEndsWith(next.token, t)
         \/ SomeTokenEndsWith(s, getNextToken(s, next.pos), t)

\* scanCommentLinesBody as it would be if the close marker were looked for
\* in every token of the line and not in the last one alone.
scanCommentLinesBody_EndsAnywhere(line, tag, inComment) ==
    LET firstToken == getFirstToken(line)
        entered == IF stringStartsWith(firstToken, C_COMMENT_START)
                   THEN TRUE ELSE inComment
        cTag == IF entered THEN C_COMMENT ELSE tag
        left == IF SomeTokenEndsWith(line, getNextToken(line, 0), C_COMMENT_END)
                THEN FALSE ELSE entered
        cppTag == IF stringStartsWith(firstToken, DOUBLE_SLASH)
                  THEN CPP_COMMENT ELSE cTag
    IN [tag |-> cppTag, inCstyleComment |-> left]

\* scanCommentLinesBody as it would be if the block-comment tag were added
\* to the entry (+= for =).
scanCommentLinesBody_AddsTag(line, tag, inComment) ==
    LET firstToken == getFirstToken(line)
        lastToken == getLastToken(line)
        entered == IF stringStartsWith(firstToken, C_COMMENT_START)
                   THEN TRUE ELSE inComment
        cTag == IF entered THEN tag + C_COMMENT ELSE tag
        left == IF stringEndsWith(lastToken, C_COMMENT_END)
                THEN FALSE ELSE entered
        cppTag == IF stringStartsWith(firstToken, DOUBLE_SLASH)
                  THEN CPP_COMMENT ELSE cTag
    IN [tag |-> cppTag, inCstyleComment |-> left]

\* One pass of the loop body over a line: the tag the line is left with
\* (tag is the entry's value before) and the flag carried to the next line.
scanCommentLinesBody(line, tag, inComment) ==
    LET firstToken == getFirstToken(line)
        lastToken == getLastToken(line)
        entered == IF stringStartsWith(firstToken, C_COMMENT_START)
                   THEN TRUE ELSE inComment
        cTag == IF entered THEN C_COMMENT ELSE tag
        left == IF stringEndsWith(lastToken, C_COMMENT_END)
                THEN FALSE ELSE entered
        cppTag == IF stringStartsWith(firstToken, DOUBLE_SLASH)
                  THEN CPP_COMMENT ELSE cTag
    IN [tag |-> cppTag, inCstyleComment |-> left]

scanCommentLinesBegin ==
    /\ pc = "scanCommentLines"
    /\ commentLines' = resize(commentLines, getSize(fileLines))
    /\ inCstyleComment' = FALSE
    /\ i' = 0
    /\ pc' = "scanCommentLinesLoop"
    /\ UNCHANGED <<others, fileLines, newTypes, scopeLevels, scopeLevel, labelLevel,
                   levelsOut>>

scanCommentLinesLine ==
    /\ pc = "scanCommentLinesLoop"
    /\ i < getSize(fileLines)
    /\ LET r == scanCommentLinesBody(Line(i), commentLines[i + 1], inCstyleComment)
       IN /\ commentLines' = [commentLines EXCEPT ![i + 1] = r.tag]
          /\ inCstyleComment' = r.inCstyleComment
    /\ i' = i + 1
    /\ UNCHANGED <<others, fileLines, newTypes, scopeLevels, pc, scopeLevel, labelLevel,
                   levelsOut>>

scanCommentLinesReturn ==
    /\ pc = "scanCommentLinesLoop"
    /\ i >= getSize(fileLines)
    /\ pc' = "scanNewTypeDefs"
    /\ UNCHANGED <<others, fileLines, newTypes, commentLines, scopeLevels, i, locals,
                   levelsOut>>

\* Is the line a (full-line) comment?
isCommentLine(line) == commentLines[line + 1] # 0

\* scanCommentLines called once more, after readFile has returned.
rescanCommentLinesBegin ==
    /\ pc = "ready"
    /\ commentLines' = resize(commentLines, getSize(fileLines))
    /\ inCstyleComment' = FALSE
    /\ i' = 0
    /\ pc' = "rescanCommentLinesLoop"
    /\ UNCHANGED <<others, fileLines, newTypes, scopeLevels, scopeLevel, labelLevel,
                   levelsOut>>

rescanCommentLinesLine ==
    /\ pc = "rescanCommentLinesLoop"
    /\ i < getSize(fileLines)
    /\ LET r == scanCommentLinesBody(Line(i), commentLines[i + 1], inCstyleComment)
       IN /\ commentLines' = [commentLines EXCEPT ![i + 1] = r.tag]
          /\ inCstyleComment' = r.inCstyleComment
    /\ i' = i + 1
    /\ UNCHANGED <<others, fileLines, newTypes, scopeLevels, pc, scopeLevel, labelLevel,
                   levelsOut>>

rescanCommentLinesReturn ==
    /\ pc = "rescanCommentLinesLoop"
    /\ i >= getSize(fileLines)
    /\ pc' = "rescanned"
    /\ UNCHANGED <<others, fileLines, newTypes, commentLines, scopeLevels, i, locals,
                   levelsOut>>

(***************************************************************************)
(* scanNewTypeDefs                                                         *)
(***************************************************************************)
\* scanNewTypeDefsBody as it would be if comment lines were read too.
scanNewTypeDefsBody_CommentsToo(line, comment, types) ==
    LET prefix == getNextToken(line, 0) IN
    IF isClassKeyword(prefix.token)
    THEN Append(types, getNextToken(line, prefix.pos).token)
    ELSE types

\* The registry after the loop body has run on a line.
scanNewTypeDefsBody(line, comment, types) ==
    IF ~comment
    THEN LET prefix == getNextToken(line, 0) IN
         IF isClassKeyword(prefix.token)
         THEN Append(types, getNextToken(line, prefix.pos).token)
         ELSE types
    ELSE types

scanNewTypeDefsBegin ==
    /\ pc = "scanNewTypeDefs"
    /\ i' = 0
    /\ pc' = "scanNewTypeDefsLoop"
    /\ UNCHANGED <<others, fileLines, newTypes, commentLines, scopeLevels, locals,
                   levelsOut>>

scanNewTypeDefsLine ==
    /\ pc = "scanNewTypeDefsLoop"
    /\ i < getSize(fileLines)
    /\ newTypes' = scanNewTypeDefsBody(Line(i), isCommentLine(i), newTypes)
    /\ i' = i + 1
    /\ UNCHANGED <<others, fileLines, commentLines, scopeLevels, pc, locals, levelsOut>>

scanNewTypeDefsReturn ==
    /\ pc = "scanNewTypeDefsLoop"
    /\ i >= getSize(fileLines)
    /\ pc' = "scanScopeLevels"
    /\ UNCHANGED <<others, fileLines, newTypes, commentLines, scopeLevels, i, locals,
                   levelsOut>>

\* Is this string a new defined type in this file?
isNewType(s) == \E t \in 1..Len(newTypes) : s = newTypes[t]

TYPES ==
    { <<"i", "n", "t">>, <<"f", "l", "o", "a", "t">>,
      <<"d", "o", "u", "b", "l", "e">>, <<"c", "h", "a", "r">>,
      <<"b", "o", "o", "l">>, <<"s", "t", "r", "i", "n", "g">>,
      <<"v", "o", "i", "d">> }

\* Is this string a fundamental type?
isBasicType(s) == s \in TYPES

\* Is this string any known type?
isAnyType(s) == isBasicType(s) \/ isNewType(s)

isLineEndingSemicolon(line) ==
    LET lastPos == getLastNonspacePos(line) IN
    lastPos # -1 /\ CharAt(line, lastPos) = SEMICOLON

isStartParen(s) == getLength(s) > 0 /\ CharAt(s, 0) = "("

\* while (name == "*") name = getNextToken(s, pos)
RECURSIVE SkipStars(_, _)
SkipStars(s, next) ==
    IF next.token = <<"*">> THEN SkipStars(s, getNextToken(s, next.pos))
    ELSE next

isFunctionHeader(s) ==
    LET type == getNextToken(s, 0) IN
    IF isBasicType(type.token) /\ ~isLineEndingSemicolon(s)
    THEN LET name == SkipStars(s, getNextToken(s, type.pos))
             nextSymbol == getNextToken(s, name.pos)
             qualified == getNextToken(s, getNextToken(s, nextSymbol.pos).pos)
         IN IF nextSymbol.token = <<":", ":">>
            THEN isStartParen(qualified.token)
            ELSE isStartParen(nextSymbol.token)
    ELSE FALSE

(***************************************************************************)
(* scanScopeLevels                                                         *)
(***************************************************************************)
\* The inner loop: the counter after the characters from position k on.
RECURSIVE ScanBraces(_, _, _)
ScanBraces(line, k, level) ==
    IF k < getLength(line)
    THEN ScanBraces(line, k + 1,
                    IF CharAt(line, k) = LEFT_BRACE THEN level + 1
                    ELSE IF CharAt(line, k) = RIGHT_BRACE THEN level - 1
                    ELSE level)
    ELSE level

\* scanScopeLevelsBody as it would be if the braces of comment lines were
\* counted too.
scanScopeLevelsBody_CommentBraces(line, tag, level) ==
    [stored |-> IF tag = 0 /\ isLineStartCloseBrace(line) THEN level - 1 ELSE level,
     scopeLevel |-> ScanBraces(line, 0, level)]

\* scanScopeLevelsBody as it would be without the adjustment of a line that
\* starts with a closing brace.
scanScopeLevelsBody_NoAdjust(line, tag, level) ==
    IF tag = 0
    THEN [stored |-> level, scopeLevel |-> ScanBraces(line, 0, level)]
    ELSE [stored |-> level, scopeLevel |-> level]

\* One pass of the loop body over a line: the level stored for the line and
\* the counter carried to the next line.  tag is commentLines[i].
scanScopeLevelsBody(line, tag, level) ==
    IF tag = 0
    THEN [stored |-> IF isLineStartCloseBrace(line) THEN level - 1 ELSE level,
          scopeLevel |-> ScanBraces(line, 0, level)]
    ELSE [stored |-> level, scopeLevel |-> level]

\* scanScopeLevelsBegin as it would be without the resize.
scanScopeLevelsBegin_NoResize ==
    /\ pc = "scanScopeLevels"
    /\ scopeLevel' = 0
    /\ i' = 0
    /\ pc' = "scanScopeLevelsLoop"
    /\ UNCHANGED <<others, fileLines, newTypes, commentLines, scopeLevels,
                   inCstyleComment, labelLevel, levelsOut>>

scanScopeLevelsBegin ==
    /\ pc = "scanScopeLevels"
    /\ scopeLevels' = resize(scopeLevels, getSize(fileLines))
    /\ scopeLevel' = 0
    /\ i' = 0
    /\ pc' = "scanScopeLevelsLoop"
    /\ UNCHANGED <<others, fileLines, newTypes, commentLines, inCstyleComment,
                   labelLevel, levelsOut>>

scanScopeLevelsLine ==
    /\ pc = "scanScopeLevelsLoop"
    /\ i < getSize(fileLines)
    /\ LET r == scanScopeLevelsBody(Line(i), commentLines[i + 1], scopeLevel)
       IN /\ scopeLevels' = [scopeLevels EXCEPT ![i + 1] = r.stored]
          /\ scopeLevel' = r.scopeLevel
    /\ i' = i + 1
    /\ UNCHANGED <<others, fileLines, newTypes, commentLines, pc, inCstyleComment,
                   labelLevel, levelsOut>>

scanScopeLevelsReturn ==
    /\ pc = "scanScopeLevelsLoop"
    /\ i >= getSize(fileLines)
    /\ levelsOut' = scopeLevels
    /\ pc' = "scanScopeLabels"
    /\ UNCHANGED <<others, fileLines, newTypes, commentLines, scopeLevels, i, locals>>

(***************************************************************************)
(* scanScopeLabels                                                         *)
(***************************************************************************)
\* thisLineLabel of the loop body.
thisLineLabel(line, tag) == tag = 0 /\ isLineLabel(line)

\* scanScopeLabelsBody as it would be if a region were never left.
scanScopeLabelsBody_NoExit(line, tag, level, label) ==
    IF label = 0
    THEN [stored |-> level,
          labelLevel |-> IF thisLineLabel(line, tag) THEN level ELSE label]
    ELSE IF ~thisLineLabel(line, tag)
         THEN [stored |-> level + 1, labelLevel |-> label]
         ELSE [stored |-> level, labelLevel |-> label]

\* scanScopeLabelsBody as it would be if a line at the level of the label
\* left the region (<= for <).
scanScopeLabelsBody_ExitAtLevel(line, tag, level, label) ==
    IF label = 0
    THEN [stored |-> level,
          labelLevel |-> IF thisLineLabel(line, tag) THEN level ELSE label]
    ELSE IF level <= label
         THEN [stored |-> level, labelLevel |-> 0]
         ELSE IF ~thisLineLabel(line, tag)
              THEN [stored |-> level + 1, labelLevel |-> label]
              ELSE [stored |-> level, labelLevel |-> label]

\* scanScopeLabelsBody as it would be if the line that leaves the region
\* were still adjusted (if for else if).
scanScopeLabelsBody_ExitAdjusts(line, tag, level, label) ==
    IF label = 0
    THEN [stored |-> level,
          labelLevel |-> IF thisLineLabel(line, tag) THEN level ELSE label]
    ELSE [stored |-> IF ~thisLineLabel(line, tag) THEN level + 1 ELSE level,
          labelLevel |-> IF level < label THEN 0 ELSE label]

\* scanScopeLabelsBody as it would be if label lines inside a region were
\* adjusted like the other lines.
scanScopeLabelsBody_RaisesLabels(line, tag, level, label) ==
    IF label = 0
    THEN [stored |-> level,
          labelLevel |-> IF thisLineLabel(line, tag) THEN level ELSE label]
    ELSE IF level < label
         THEN [stored |-> level, labelLevel |-> 0]
         ELSE [stored |-> level + 1, labelLevel |-> label]

\* scanScopeLabelsBody as it would be if a label line inside a region, at a
\* depth above the labelLevel, took the region over.
scanScopeLabelsBody_LabelReopens(line, tag, level, label) ==
    IF label = 0
    THEN [stored |-> level,
          labelLevel |-> IF thisLineLabel(line, tag) THEN level ELSE label]
    ELSE IF level < label
         THEN [stored |-> level, labelLevel |-> 0]
         ELSE IF ~thisLineLabel(line, tag)
              THEN [stored |-> level + 1, labelLevel |-> label]
              ELSE [stored |-> level, labelLevel |-> level]

\* scanScopeLabelsBody as it would be if a label line at depth 0 opened a
\* region too (the region's mark kept apart from 0).
scanScopeLabelsBody_ZeroOpens(line, tag, level, label) ==
    IF label = 0
    THEN [stored |-> level,
          labelLevel |-> IF thisLineLabel(line, tag)
                         THEN (IF level = 0 THEN -1 ELSE level)
                         ELSE label]
    ELSE IF level < label
         THEN [stored |-> level, labelLevel |-> 0]
         ELSE IF ~thisLineLabel(line, tag)
              THEN [stored |-> level + 1, labelLevel |-> label]
              ELSE [stored |-> level, labelLevel |-> label]

\* One pass of the loop body over a line: the level the line is left with
\* (level is its entry before) and the labelLevel carried to the next line.
scanScopeLabelsBody(line, tag, level, label) ==
    IF label = 0
    THEN [stored |-> level,
          labelLevel |-> IF thisLineLabel(line, tag) THEN level ELSE label]
    ELSE IF level < label
         THEN [stored |-> level, labelLevel |-> 0]
         ELSE IF ~thisLineLabel(line, tag)
              THEN [stored |-> level + 1, labelLevel |-> label]
              ELSE [stored |-> level, labelLevel |-> label]

scanScopeLabelsBegin ==
    /\ pc = "scanScopeLabels"
    /\ labelLevel' = 0
    /\ i' = 0
    /\ pc' = "scanScopeLabelsLoop"
    /\ UNCHANGED <<others, fileLines, newTypes, commentLines, scopeLevels,
                   inCstyleComment, scopeLevel, levelsOut>>

scanScopeLabelsLine ==
    /\ pc = "scanScopeLabelsLoop"
    /\ i < getSize(fileLines)
    /\ LET r == scanScopeLabelsBody(Line(i), commentLines[i + 1],
                                    scopeLevels[i + 1], labelLevel)
       IN /\ scopeLevels' = [scopeLevels EXCEPT ![i + 1] = r.stored]
          /\ labelLevel' = r.labelLevel
    /\ i' = i + 1
    /\ UNCHANGED <<others, fileLines, newTypes, commentLines, pc, inCstyleComment,
                   scopeLevel, levelsOut>>

scanScopeLabelsReturn ==
    /\ pc = "scanScopeLabelsLoop"
    /\ i >= getSize(fileLines)
    /\ pc' = "ready"
    /\ UNCHANGED <<others, fileLines, newTypes, commentLines, scopeLevels, i, locals,
                   levelsOut>>

(***************************************************************************)
(* The specifications: readFile over the files of a vocabulary.            *)
(***************************************************************************)
Scan ==
    \/ scanCommentLinesBegin
    \/ scanCommentLinesLine
    \/ scanCommentLinesReturn
    \/ scanNewTypeDefsBegin
    \/ scanNewTypeDefsLine
    \/ scanNewTypeDefsReturn
    \/ scanScopeLevelsBegin
    \/ scanScopeLevelsLine
    \/ scanScopeLevelsReturn
    \/ scanScopeLabelsBegin
    \/ scanScopeLabelsLine
    \/ scanScopeLabelsReturn

ReadScopeFile == ReadFile(Files(ScopeVocab, MaxLines))

NextScope == ReadScopeFile \/ Scan

SpecScope == Init /\ [][NextScope]_vars

ReadCommentFile == ReadFile(Files(CommentVocab, MaxCommentLines))

NextComment == ReadCommentFile \/ Scan

SpecComment == Init /\ [][NextComment]_vars

\* Lines for a second run of scanCommentLines: comments of both kinds, a
\* class header that opens a scope, and a statement.
RescanVocab ==
    { <<"/", "*", " ", "a">>,
      <<"a", " ", "*", "/">>,
      <<"/", "/", " ", "a">>,
      <<"c", "l", "a", "s", "s", " ", "a", " ", "{">>,
      <<"a", ";">>,
      <<"/", "*", " ", "a", " ", "*", "/">> }

\* readFile, then scanCommentLines once more.
ReadRescanFile == ReadFile(Files(RescanVocab, MaxRescanLines))

NextRescan ==
    \/ ReadRescanFile
    \/ Scan
    \/ rescanCommentLinesBegin
    \/ rescanCommentLinesLine
    \/ rescanCommentLinesReturn

SpecRescan == Init /\ [][NextRescan]_vars

\* Lines for the type registry: class and struct headers, headers in
\* comments of both kinds, the keyword alone, and lines whose first token is
\* no keyword.
TypeVocab ==
    { <<"c", "l", "a", "s", "s", " ", "A", " ", "{">>,
      <<" ", "s", "t", "r", "u", "c", "t", " ", "B">>,
      <<"/", "/", " ", "c", "l", "a", "s", "s", " ", "C">>,
      <<"/", "*", " ", "c", "l", "a", "s", "s", " ", "D">>,
      <<"c", "l", "a", "s", "s", " ", "E", " ", "*", "/">>,
      <<"c", "l", "a", "s", "s">>,
      <<"c", "l", "a", "s", "s", "e", "s", " ", "F">>,
      <<"A", " ", "c", "l", "a", "s", "s", ";">> }

ReadTypeFile == ReadFile(Files(TypeVocab, MaxTypeLines))

NextType == ReadTypeFile \/ Scan

SpecType == Init /\ [][NextType]_vars

(***************************************************************************)
(* checkErrors, called by main when readFile has returned true.  What is   *)
(* written to cout is kept as the set of the kinds of line written: the    *)
(* two messages of printError, the success message, and REPORT for any     *)
(* line written by printErrors.  checkAnyComments, checkHeaderStart and    *)
(* checkNoErrors are modelled in full.  The other checks collect line      *)
(* numbers from fileLines, commentLines, scopeLevels and newTypes, which   *)
(* they only read, and hand them to printErrors; the line numbers a check  *)
(* collects are left open here; checkFunctionLength is modelled in full.   *)
(***************************************************************************)
NO_COMMENTS_FOUND == "No comments found!"
NO_COMMENT_FIRST_LINE == "No comment on first line! (line 1)."
NO_ERRORS_FOUND == "No errors found."
REPORT == "report"

\* The checks in the order checkErrors calls them.
CheckOrder ==
    << "checkAnyComments", "checkHeaderStart", "checkHeaderFormat",
       "checkFunctionLength",
       "checkTabUsage", "checkIndentLevels", "checkLineLength",
       "checkVariableNames", "checkConstantNames", "checkFunctionNames",
       "checkClassNames", "checkExtraneousBlanks", "checkPunctuationSpacing",
       "checkSpacedOperators",
       "checkFunctionLeadComments", "checkBlanksBeforeComments",
       "checkTooFewComments", "checkTooManyComments",
       "checkStartSpaceComments", "checkEndlineComments",
       "checkEndlineRunonComments",
       "checkNoErrors" >>

\* The statement after the call of a check.
AfterCheck(name) ==
    LET k == CHOOSE n \in 1..Len(CheckOrder) : CheckOrder[n] = name
    IN IF k < Len(CheckOrder) THEN CheckOrder[k + 1] ELSE "checked"

\* The checks that end in printErrors.
LineChecks ==
    {CheckOrder[n] : n \in 1..Len(CheckOrder)}
        \ {"checkAnyComments", "checkHeaderStart", "checkFunctionLength",
           "checkNoErrors"}

RECURSIVE FirstCommentFrom(_)
FirstCommentFrom(k) ==
    IF k >= getSize(fileLines) THEN -1
    ELSE IF commentLines[k + 1] # 0 THEN k
    ELSE FirstCommentFrom(k + 1)

getFirstCommentLine == FirstCommentFrom(0)

\* printError: a line on cout, and nothing else.
printError(error) == printed \cup {error}

\* printErrors: the flag and cout after the call.
printErrors(lines) ==
    [anyErrors |-> IF Len(lines) > 0 THEN TRUE ELSE anyErrors,
     printed |-> IF Len(lines) > 0 THEN printed \cup {REPORT} ELSE printed]

callCheckErrors ==
    /\ pc = "ready"
    /\ pc' = CheckOrder[1]
    /\ UNCHANGED <<fileLines, newTypes, commentLines, scopeLevels, anyErrors,
                   printed, i, iTypes, locals, levelsOut, tokVars,
                   extraVars>>

checkAnyComments ==
    /\ pc = "checkAnyComments"
    /\ printed' = IF getFirstCommentLine = -1
                  THEN printError(NO_COMMENTS_FOUND) ELSE printed
    /\ pc' = AfterCheck("checkAnyComments")
    /\ UNCHANGED <<fileLines, newTypes, commentLines, scopeLevels, anyErrors,
                   i, iTypes, locals, levelsOut, tokVars,
                   extraVars>>

\* checkHeaderStart as it would be if its test assigned to the first line's
\* tag (= for ==).
checkHeaderStart_AssignsTag ==
    /\ pc = "checkHeaderStart"
    /\ commentLines' = [commentLines EXCEPT ![1] = NO_COMMENT]
    /\ printed' = printError(NO_COMMENT_FIRST_LINE)
    /\ pc' = AfterCheck("checkHeaderStart")
    /\ UNCHANGED <<fileLines, newTypes, scopeLevels, anyErrors,
                   i, iTypes, locals, levelsOut, tokVars,
                   extraVars>>

checkHeaderStart ==
    /\ pc = "checkHeaderStart"
    /\ printed' = IF getFirstCommentLine # 0
                  THEN printError(NO_COMMENT_FIRST_LINE) ELSE printed
    /\ pc' = AfterCheck("checkHeaderStart")
    /\ UNCHANGED <<fileLines, newTypes, commentLines, scopeLevels, anyErrors,
                   i, iTypes, locals, levelsOut, tokVars,
                   extraVars>>

\* A check that collects the numbers of the lines at fault and prints them.
checkLines(name) ==
    /\ pc = name
    /\ \E lines \in {<<>>} \cup {<<k>> : k \in 0..(getSize(fileLines) - 1)} :
           LET r == printErrors(lines)
           IN /\ anyErrors' = r.anyErrors
              /\ printed' = r.printed
    /\ pc' = AfterCheck(name)
    /\ UNCHANGED <<fileLines, newTypes, commentLines, scopeLevels,
                   i, iTypes, locals, levelsOut, tokVars,
                   extraVars>>

\* Does this line start with an opening brace?
isLineStartOpenBrace(line) ==
    LET firstPos == getFirstNonspacePos(line) IN
    firstPos >= 0 /\ CharAt(line, firstPos) = LEFT_BRACE

\* Is this a class/struct header line?
isClassHeader(s) == isClassKeyword(getFirstToken(s))

MAX_INLINE == 1
LONG_FUNC == 25

getFunctionLengthLimit(inClass) == IF inClass THEN MAX_INLINE ELSE LONG_FUNC

\* The line at which the loop of countFunctionLength stops.
RECURSIVE FunctionEnd(_, _)
FunctionEnd(line, startScope) ==
    IF /\ line < getSize(fileLines)
       /\ \/ isLineStartOpenBrace(Line(line))
          \/ scopeLevels[line + 1] > startScope
    THEN FunctionEnd(line + 1, startScope)
    ELSE line

countFunctionLength(startLine) ==
    FunctionEnd(startLine + 1, scopeLevels[startLine + 1]) - startLine - 1

\* checkFunctionLengthBody as it would be if the flag were cleared after the
\* class-header test and not before it.
checkFunctionLengthBody_ClearsLate(line, inClass, lines) ==
    LET set == IF commentLines[line + 1] = 0 /\ isClassHeader(Line(line))
               THEN TRUE ELSE inClass
        cleared == IF scopeLevels[line + 1] = 0 THEN FALSE ELSE set
        long == /\ commentLines[line + 1] = 0
                /\ isFunctionHeader(Line(line))
                /\ countFunctionLength(line) > getFunctionLengthLimit(cleared)
    IN [inClassHeader |-> cleared,
        errorLines |-> IF long THEN Append(lines, line) ELSE lines]

\* One pass of the loop body of checkFunctionLength: the flag and the
\* lines collected after it.
checkFunctionLengthBody(line, inClass, lines) ==
    LET cleared == IF scopeLevels[line + 1] = 0 THEN FALSE ELSE inClass
        set == IF commentLines[line + 1] = 0 /\ isClassHeader(Line(line))
               THEN TRUE ELSE cleared
        long == /\ commentLines[line + 1] = 0
                /\ isFunctionHeader(Line(line))
                /\ countFunctionLength(line) > getFunctionLengthLimit(set)
    IN [inClassHeader |-> set,
        errorLines |-> IF long THEN Append(lines, line) ELSE lines]

checkFunctionLengthBegin ==
    /\ pc = "checkFunctionLength"
    /\ IF doFunctionLengthCheck
       THEN /\ errorLines' = <<>>
            /\ inClassHeader' = FALSE
            /\ i' = 0
            /\ pc' = "checkFunctionLengthLoop"
       ELSE /\ pc' = AfterCheck("checkFunctionLength")
            /\ UNCHANGED <<errorLines, inClassHeader, i>>
    /\ UNCHANGED <<fileLines, newTypes, commentLines, scopeLevels, anyErrors,
                   printed, iTypes, locals, levelsOut, tokVars, asked, answer,
                   argVars>>

checkFunctionLengthLine ==
    /\ pc = "checkFunctionLengthLoop"
    /\ i < getSize(fileLines)
    /\ LET r == checkFunctionLengthBody(i, inClassHeader, errorLines)
       IN /\ inClassHeader' = r.inClassHeader
          /\ errorLines' = r.errorLines
    /\ i' = i + 1
    /\ UNCHANGED <<fileLines, newTypes, commentLines, scopeLevels, anyErrors,
                   printed, pc, iTypes, locals, levelsOut, tokVars, asked,
                   answer, argVars>>

checkFunctionLengthReturn ==
    /\ pc = "checkFunctionLengthLoop"
    /\ i >= getSize(fileLines)
    /\ LET r == printErrors(errorLines)
       IN /\ anyErrors' = r.anyErrors
          /\ printed' = r.printed
    /\ pc' = AfterCheck("checkFunctionLength")
    /\ UNCHANGED <<fileLines, newTypes, commentLines, scopeLevels, i, iTypes,
                   locals, levelsOut, tokVars, extraVars>>

checkNoErrors ==
    /\ pc = "checkNoErrors"
    /\ printed' = IF ~anyErrors THEN printed \cup {NO_ERRORS_FOUND} ELSE printed
    /\ pc' = AfterCheck("checkNoErrors")
    /\ UNCHANGED <<fileLines, newTypes, commentLines, scopeLevels, anyErrors,
                   i, iTypes, locals, levelsOut, tokVars,
                   extraVars>>

checkErrors ==
    \/ callCheckErrors
    \/ checkAnyComments
    \/ checkHeaderStart
    \/ checkFunctionLengthBegin
    \/ checkFunctionLengthLine
    \/ checkFunctionLengthReturn
    \/ \E name \in LineChecks : checkLines(name)
    \/ checkNoErrors

ReadCheckFile == ReadFile(Files(RescanVocab, MaxCheckLines))

NextCheck == ReadCheckFile \/ Scan \/ checkErrors

SpecCheck == Init /\ [][NextCheck]_vars

(***************************************************************************)
(* scanNewTypeDefs and scanScopeLevels run side by side after              *)
(* scanCommentLines: each keeps its own loop index, and a step is one      *)
(* pass of the loop body of either.  The two orders of running one pass    *)
(* after the other are among the behaviours.                               *)
(***************************************************************************)
\* Both passes are entered.
forkPasses ==
    /\ pc = "scanNewTypeDefs"
    /\ iTypes' = 0
    /\ scopeLevels' = resize(scopeLevels, getSize(fileLines))
    /\ scopeLevel' = 0
    /\ i' = 0
    /\ pc' = "bothPasses"
    /\ UNCHANGED <<fileLines, newTypes, commentLines, anyErrors, printed,
                   inCstyleComment, labelLevel, levelsOut, tokVars,
                   extraVars>>

\* scanNewTypeDefsStep as it would be if the two loops shared their index.
scanNewTypeDefsStep_SharedIndex ==
    /\ pc = "bothPasses"
    /\ i < getSize(fileLines)
    /\ newTypes' = scanNewTypeDefsBody(Line(i), isCommentLine(i), newTypes)
    /\ i' = i + 1
    /\ iTypes' = i + 1
    /\ UNCHANGED <<fileLines, commentLines, scopeLevels, anyErrors, printed,
                   pc, locals, levelsOut, tokVars,
                   extraVars>>

scanNewTypeDefsStep ==
    /\ pc = "bothPasses"
    /\ iTypes < getSize(fileLines)
    /\ newTypes' =
           scanNewTypeDefsBody(Line(iTypes), isCommentLine(iTypes), newTypes)
    /\ iTypes' = iTypes + 1
    /\ UNCHANGED <<fileLines, commentLines, scopeLevels, anyErrors, printed,
                   pc, i, locals, levelsOut, tokVars,
                   extraVars>>

scanScopeLevelsStep ==
    /\ pc = "bothPasses"
    /\ i < getSize(fileLines)
    /\ LET r == scanScopeLevelsBody(Line(i), commentLines[i + 1], scopeLevel)
       IN /\ scopeLevels' = [scopeLevels EXCEPT ![i + 1] = r.stored]
          /\ scopeLevel' = r.scopeLevel
    /\ i' = i + 1
    /\ UNCHANGED <<fileLines, newTypes, commentLines, anyErrors, printed,
                   pc, iTypes, inCstyleComment, labelLevel, levelsOut, tokVars,
                   extraVars>>

\* Both passes have returned.
joinPasses ==
    /\ pc = "bothPasses"
    /\ iTypes >= getSize(fileLines)
    /\ i >= getSize(fileLines)
    /\ levelsOut' = scopeLevels
    /\ pc' = "bothDone"
    /\ UNCHANGED <<fileLines, newTypes, commentLines, scopeLevels, anyErrors,
                   printed, i, iTypes, locals, tokVars,
                   extraVars>>

\* Class headers, braces, and both in comments.
BothVocab ==
    { <<"c", "l", "a", "s", "s", " ", "A", " ", "{">>,
      <<"}">>,
      <<"/", "/", " ", "c", "l", "a", "s", "s", " ", "B", " ", "{">>,
      <<"/", "*", " ", "{">>,
      <<"s", "t", "r", "u", "c", "t", " ", "C", " ", "{", " ", "*", "/">>,
      <<"x", ";">> }

ReadBothFile == ReadFile(Files(BothVocab, MaxBothLines))

NextBoth ==
    \/ ReadBothFile
    \/ scanCommentLinesBegin
    \/ scanCommentLinesLine
    \/ scanCommentLinesReturn
    \/ forkPasses
    \/ scanNewTypeDefsStep
    \/ scanScopeLevelsStep
    \/ joinPasses

SpecBoth == Init /\ [][NextBoth]_vars

(***************************************************************************)
(* A caller of getNextToken: it holds a line and a position, and calls     *)
(* again with the position the last call left, as getLastToken and         *)
(* showTokens do; it goes on for MaxEmptyCalls calls that return the empty *)
(* token.                                                                  *)
(***************************************************************************)
TokAlphabet == {"a", "_", "1", ".", ";", " ", CtlChar}

\* int x=5;
ScenarioLine == <<"i", "n", "t", " ", "x", "=", "5", ";">>

TokLines ==
    UNION {[1..n -> TokAlphabet] : n \in 0..MaxTokLen} \cup {ScenarioLine}

EmptyTokens(out) == Len(SelectSeq(out, LAMBDA t : t = <<>>))

InitToken ==
    /\ ScannerInit
    /\ argv = <<>>
    /\ tokLine \in TokLines
    /\ tokStart \in 0..getLength(tokLine)
    /\ tokPos = tokStart
    /\ tokOut = <<>>

callGetNextToken ==
    /\ EmptyTokens(tokOut) < MaxEmptyCalls
    /\ LET next == getNextToken(tokLine, tokPos)
       IN /\ tokOut' = Append(tokOut, next.token)
          /\ tokPos' = next.pos
    /\ UNCHANGED <<fileLines, newTypes, commentLines, scopeLevels, anyErrors,
                   printed, pc, i, iTypes, locals, levelsOut, tokLine,
                   tokStart, extraVars>>

NextToken == callGetNextToken

SpecToken == InitToken /\ [][NextToken]_vars

\* The caller goes on calling while it may.
SpecTokenLive == SpecToken /\ WF_vars(callGetNextToken)

(***************************************************************************)
(* mayBeRunOnLine, as the checks call it once readFile has returned.       *)
(***************************************************************************)
\* mayBeRunOnLine as it would be if the tag of the line before were not
\* looked at.
mayBeRunOnLine_AnyPrior(line) ==
    IF /\ line > 0
       /\ scopeLevels[line + 1] = scopeLevels[line]
       /\ ~isBlank(Line(line - 1))
    THEN LET priorLine == Line(line - 1)
             lastPriorChar == getLastNonspacePos(priorLine)
         IN CharAt(priorLine, lastPriorChar) # SEMICOLON
    ELSE FALSE

mayBeRunOnLine(line) ==
    IF /\ line > 0
       /\ scopeLevels[line + 1] = scopeLevels[line]
       /\ commentLines[line] = 0
       /\ ~isBlank(Line(line - 1))
    THEN LET priorLine == Line(line - 1)
             lastPriorChar == getLastNonspacePos(priorLine)
         IN CharAt(priorLine, lastPriorChar) # SEMICOLON
    ELSE FALSE

callMayBeRunOnLine ==
    /\ pc = "ready"
    /\ \E line \in 0..(getSize(fileLines) - 1) :
           /\ asked' = <<"mayBeRunOnLine", line>>
           /\ answer' = mayBeRunOnLine(line)
    /\ UNCHANGED <<fileLines, newTypes, commentLines, scopeLevels, anyErrors,
                   printed, pc, i, iTypes, locals, levelsOut, tokVars,
                   argVars, lengthVars>>

\* Statements with and without a semicolon, blank lines, braces, a comment
\* and a label.
RunOnVocab ==
    { <<"x", ";">>,
      <<"x">>,
      <<"x", ";", " ">>,
      <<>>,
      <<" ">>,
      <<"{">>,
      <<"\t", "}">>,
      <<"/", "/", " ", "a">>,
      <<"c", "a", "s", "e", " ", "1", ":">> }

ReadRunOnFile == ReadFile(Files(RunOnVocab, MaxRunOnLines))

NextRunOn == ReadRunOnFile \/ Scan \/ callMayBeRunOnLine

SpecRunOn == Init /\ [][NextRunOn]_vars

(***************************************************************************)
(* isFunctionHeader, as the checks call it on a line of the file once      *)
(* readFile has returned.                                                  *)
(***************************************************************************)
callIsFunctionHeader ==
    /\ pc = "ready"
    /\ \E line \in 0..(getSize(fileLines) - 1) :
           /\ asked' = <<"isFunctionHeader", line>>
           /\ answer' = isFunctionHeader(Line(line))
    /\ UNCHANGED <<fileLines, newTypes, commentLines, scopeLevels, anyErrors,
                   printed, pc, i, iTypes, locals, levelsOut, tokVars,
                   argVars, lengthVars>>

\* class Foo / Foo make() { / int f() { / int f(); / int * f( / int A::f( /
\* int x = 1 / void / x (
HeaderVocab ==
    { <<"c", "l", "a", "s", "s", " ", "F", "o", "o">>,
      <<"F", "o", "o", " ", "m", "a", "k", "e", "(", ")", " ", "{">>,
      <<"i", "n", "t", " ", "f", "(", ")", " ", "{">>,
      <<"i", "n", "t", " ", "f", "(", ")", ";">>,
      <<"i", "n", "t", " ", "*", " ", "f", "(">>,
      <<"i", "n", "t", " ", "A", ":", ":", "f", "(">>,
      <<"i", "n", "t", " ", "x", " ", "=", " ", "1">>,
      <<"v", "o", "i", "d">>,
      <<"x", " ", "(">> }

ReadHeaderFile == ReadFile(Files(HeaderVocab, MaxHeaderLines))

NextHeader == ReadHeaderFile \/ Scan \/ callIsFunctionHeader

SpecHeader == Init /\ [][NextHeader]_vars

(***************************************************************************)
(* The assertions, and isCommentLine as the checks call it once readFile   *)
(* has returned: with the index of a line of the file.                     *)
(***************************************************************************)
\* assert(0 <= line && line < getSize(fileLines))
isCommentLineAssert(line) == 0 <= line /\ line < getSize(fileLines)

\* assert(pos < getLength(s)); assert(!isspace(s[pos]))
findTokenEndAssert(s, pos) == pos < getLength(s) /\ ~isspace(CharAt(s, pos))

\* The assertions of the call of findTokenEnd that getNextToken(s, pos)
\* makes, when it makes one.
getNextTokenAsserts(s, pos) ==
    LET start == EatSpaces(s, pos) IN
    start >= getLength(s) \/ findTokenEndAssert(s, start)

callIsCommentLine ==
    /\ pc = "ready"
    /\ \E line \in 0..(getSize(fileLines) - 1) :
           /\ asked' = <<"isCommentLine", line>>
           /\ answer' = isCommentLine(line)
    /\ UNCHANGED <<fileLines, newTypes, commentLines, scopeLevels, anyErrors,
                   printed, pc, i, iTypes, locals, levelsOut, tokVars,
                   argVars, lengthVars>>

\* The empty line (all that an empty file holds), braces that do not match,
\* a comment that is not closed, a label, and a character of no class.
AbortVocab ==
    { <<>>,
      <<" ">>,
      <<"}">>,
      <<"{", " ", "{">>,
      <<"/", "*", " ", "a">>,
      <<"c", "a", "s", "e", " ", "1", ":">>,
      <<"x">>,
      <<"x", CtlChar, ";">> }

ReadAbortFile == ReadFile(Files(AbortVocab, MaxAbortLines))

NextAbort ==
    \/ ReadAbortFile
    \/ Scan
    \/ callMayBeRunOnLine
    \/ callIsCommentLine

SpecAbort == Init /\ [][NextAbort]_vars

\* Lines for the label regions: braces, label lines, label lines that hold
\* a brace, and a statement.
LabelVocab ==
    { <<"{">>,
      <<"{", " ", "{">>,
      <<"c", "a", "s", "e", " ", "1", ":", " ", "{">>,
      <<"c", "a", "s", "e", " ", "1", ":", " ", "}">>,
      <<"p", "u", "b", "l", "i", "c", ":">>,
      <<"x", ";">> }

ReadLabelFile == ReadFile(Files(LabelVocab, MaxLabelLines))

NextLabel == ReadLabelFile \/ Scan

SpecLabel == Init /\ [][NextLabel]_vars

(***************************************************************************)
(* main: parseArgs, then printUsage or readFile and checkErrors.  argv     *)
(* holds the arguments after the program name, so argc is its length plus  *)
(* one; an argument is a C string, read as NUL at its end.  The assertions *)
(* are compiled in (the source does not define NDEBUG): one that fails     *)
(* ends the program.                                                       *)
(***************************************************************************)
NUL == "^@"

strlen(arg) == Len(arg)

\* arg[k], for k up to the terminating NUL.
ArgChar(arg, k) == IF k < Len(arg) THEN arg[k + 1] ELSE NUL

\* The assertions of parseFunctionArg.
parseFunctionArgAssert(arg) ==
    /\ strlen(arg) >= 3
    /\ ArgChar(arg, 0) = "-" /\ ArgChar(arg, 1) = "f"

\* parseFunctionArg: the three flags after the call.
parseFunctionArg(arg) ==
    [exitAfterArgs |->
         IF ArgChar(arg, 2) \notin {"c", "l"} THEN TRUE ELSE exitAfterArgs,
     doFunctionCommentCheck |->
         IF ArgChar(arg, 2) = "c" THEN FALSE ELSE doFunctionCommentCheck,
     doFunctionLengthCheck |->
         IF ArgChar(arg, 2) = "l" THEN FALSE ELSE doFunctionLengthCheck]

\* One pass of the loop of parseArgs, on an option that starts with -f.
parseArgsFunctionArg ==
    /\ pc = "parseArgs"
    /\ count < Len(argv) + 1
    /\ ArgChar(argv[count], 0) = "-"
    /\ ArgChar(argv[count], 1) = "f"
    /\ IF parseFunctionArgAssert(argv[count])
       THEN LET r == parseFunctionArg(argv[count])
            IN /\ exitAfterArgs' = r.exitAfterArgs
               /\ doFunctionCommentCheck' = r.doFunctionCommentCheck
               /\ doFunctionLengthCheck' = r.doFunctionLengthCheck
               /\ count' = count + 1
               /\ UNCHANGED <<aborted, pc>>
       ELSE /\ aborted' = TRUE
            /\ pc' = "aborted"
            /\ UNCHANGED <<exitAfterArgs, doFunctionCommentCheck,
                           doFunctionLengthCheck, count>>
    /\ UNCHANGED <<fileLines, newTypes, commentLines, scopeLevels, anyErrors,
                   printed, i, iTypes, locals, levelsOut, tokVars, asked,
                   answer, argv, fileName, lengthVars>>

\* One pass of the loop of parseArgs, on any other argument.
parseArgsArg ==
    /\ pc = "parseArgs"
    /\ count < Len(argv) + 1
    /\ ~(ArgChar(argv[count], 0) = "-" /\ ArgChar(argv[count], 1) = "f")
    /\ IF ArgChar(argv[count], 0) = "-"
       THEN exitAfterArgs' = TRUE /\ fileName' = fileName
       ELSE IF fileName = <<>>
            THEN fileName' = argv[count] /\ exitAfterArgs' = exitAfterArgs
            ELSE exitAfterArgs' = TRUE /\ fileName' = fileName
    /\ count' = count + 1
    /\ UNCHANGED <<fileLines, newTypes, commentLines, scopeLevels, anyErrors,
                   printed, pc, i, iTypes, locals, levelsOut, tokVars, asked,
                   answer, argv, aborted, doFunctionCommentCheck,
                   doFunctionLengthCheck, lengthVars>>

\* The end of parseArgs and the test of main on exitAfterArgs.
parseArgsReturn ==
    /\ pc = "parseArgs"
    /\ count >= Len(argv) + 1
    /\ exitAfterArgs' = IF fileName = <<>> THEN TRUE ELSE exitAfterArgs
    /\ pc' = IF exitAfterArgs' THEN "printUsage" ELSE "readFile"
    /\ UNCHANGED <<fileLines, newTypes, commentLines, scopeLevels, anyErrors,
                   printed, i, iTypes, locals, levelsOut, tokVars, asked,
                   answer, argv, count, aborted, fileName,
                   doFunctionCommentCheck, doFunctionLengthCheck, lengthVars>>

USAGE == "Usage: StyleScanner file [options]"

printUsage ==
    /\ pc = "printUsage"
    /\ printed' = printed \cup {USAGE}
    /\ pc' = "exit"
    /\ UNCHANGED <<fileLines, newTypes, commentLines, scopeLevels, anyErrors,
                   i, iTypes, locals, levelsOut, tokVars, extraVars>>

parseArgs == parseArgsFunctionArg \/ parseArgsArg \/ parseArgsReturn

\* main as it starts, with one of the argument vectors given.
InitMain(vectors) ==
    /\ MemberInit
    /\ pc = "parseArgs"
    /\ argv \in vectors
    /\ tokLine = <<>>
    /\ tokStart = 0
    /\ tokPos = 0
    /\ tokOut = <<>>

(***************************************************************************)
(* The whole of main on files of classes and functions, with and without   *)
(* the option that suppresses the function length check.                   *)
(***************************************************************************)
\* class A { / class A / int f() { / x; / // c
LengthVocab ==
    { <<"c", "l", "a", "s", "s", " ", "A", " ", "{">>,
      <<"c", "l", "a", "s", "s", " ", "A">>,
      <<"i", "n", "t", " ", "f", "(", ")", " ", "{">>,
      <<"x", ";">>,
      <<"/", "/", " ", "c">> }

LengthArgs == { << <<"a">> >>, << <<"a">>, <<"-", "f", "l">> >> }

ReadLengthFile == ReadFile(Files(LengthVocab, MaxLengthLines))

NextLength ==
    \/ parseArgsFunctionArg
    \/ parseArgsArg
    \/ parseArgsReturn
    \/ ReadLengthFile
    \/ Scan
    \/ checkErrors

SpecLength == InitMain(LengthArgs) /\ [][NextLength]_vars

(***************************************************************************)
(* parseArgs and the test of main on exitAfterArgs, on argument vectors of *)
(* file names, the two options, and options that are unknown, too short,   *)
(* too long or empty.                                                      *)
(***************************************************************************)
\* a / b / -fc / -fl / -fx / -fcx / -f / -x / - / the empty string
ArgVocab ==
    { <<"a">>, <<"b">>,
      <<"-", "f", "c">>, <<"-", "f", "l">>, <<"-", "f", "x">>,
      <<"-", "f", "c", "x">>,
      <<"-", "f">>, <<"-", "x">>, <<"-">>, <<>> }

ArgVectors ==
    UNION {[1..n -> ArgVocab] : n \in 0..MaxArgs}

NextArgs == parseArgs \/ printUsage

SpecArgs == InitMain(ArgVectors) /\ [][NextArgs]_vars

(***************************************************************************)
(* Notions the properties are stated with, defined on the text of the file *)
(* and on the tags alone.                                                  *)
(***************************************************************************)
NumLines == Len(fileLines)

LineIndexes == 0..(NumLines - 1)

\* How often character c stands on a line.
Count(line, c) == Cardinality({p \in 1..Len(line) : line[p] = c})

\* Opening minus closing braces on a line.
NetBraces(line) == Count(line, "{") - Count(line, "}")

\* The first character of the line that is no blank or tab is a closing brace.
StartsWithClose(line) ==
    \E p \in 1..Len(line) :
        /\ line[p] = "}"
        /\ \A q \in 1..(p - 1) : line[q] \in {" ", "\t"}

\* Line k is tagged as a comment.
Tagged(k) == commentLines[k + 1] # NO_COMMENT

\* Opening minus closing braces on the lines before line k that are not
\* tagged as comments.
RECURSIVE CounterBefore(_)
CounterBefore(k) ==
    IF k = 0 THEN 0
    ELSE CounterBefore(k - 1)
         + (IF Tagged(k - 1) THEN 0 ELSE NetBraces(Line(k - 1)))

\* The depth scanScopeLevels is to record for line k.
ExpectedDepth(k) ==
    CounterBefore(k) - (IF ~Tagged(k) /\ StartsWithClose(Line(k)) THEN 1 ELSE 0)

\* scanScopeLevels has returned: levelsOut holds what it recorded.
LevelsDone == pc \in {"scanScopeLabels", "scanScopeLabelsLoop", "ready"}

\* C1: in scanScopeLevels, the depth recorded for every line handled so far
\* is the counter before the line (opening minus closing braces of the
\* earlier lines not tagged as comments, from 0), less one exactly when the
\* line is not a comment and starts with a closing brace; the counter carried
\* on is not touched by that correction and is never clamped.
C1_RecordedDepth ==
    /\ pc = "scanScopeLevelsLoop" =>
          /\ scopeLevel = CounterBefore(i)
          /\ \A k \in 0..(i - 1) : scopeLevels[k + 1] = ExpectedDepth(k)
    /\ LevelsDone => \A k \in LineIndexes : levelsOut[k + 1] = ExpectedDepth(k)

\* scanScopeLevels has run over a file where closes outnumber opens, a
\* comment line holds a brace, and a line that starts with a closing brace
\* is followed by another line.
C1_Witness ==
    /\ LevelsDone
    /\ \E k \in LineIndexes : levelsOut[k + 1] < 0
    /\ \E k \in LineIndexes : Tagged(k) /\ NetBraces(Line(k)) # 0 /\ k + 1 < NumLines
    /\ \E k \in LineIndexes :
          ~Tagged(k) /\ StartsWithClose(Line(k)) /\ k + 1 < NumLines

(***************************************************************************)
(* Matching braces.  Only the braces of lines not tagged as comments take  *)
(* part, in file order.                                                    *)
(***************************************************************************)
\* The braces of a line from position p on: the line they stand on and
\* whether they open.
RECURSIVE LineBraces(_, _, _)
LineBraces(line, k, p) ==
    IF p > Len(line) THEN <<>>
    ELSE (IF line[p] \in {"{", "}"}
          THEN << [line |-> k, open |-> (line[p] = "{")] >>
          ELSE <<>>) \o LineBraces(line, k, p + 1)

\* The braces of the lines before line n.
RECURSIVE BracesBefore(_)
BracesBefore(n) ==
    IF n = 0 THEN <<>>
    ELSE BracesBefore(n - 1)
         \o (IF Tagged(n - 1) THEN <<>> ELSE LineBraces(Line(n - 1), n - 1, 1))

Braces == BracesBefore(NumLines)

\* The nesting after the first t braces.
Nest(t) ==
    Cardinality({a \in 1..t : Braces[a].open})
    - Cardinality({a \in 1..t : ~Braces[a].open})

\* The opening braces that can match the closing brace b, the last of which
\* matches it.
Openers(b) == {a \in 1..(b - 1) : Braces[a].open /\ Nest(a - 1) = Nest(b)}

Max(S) == CHOOSE x \in S : \A y \in S : y <= x

\* The first brace of line k.
FirstBrace(k) ==
    CHOOSE b \in 1..Len(Braces) :
        /\ Braces[b].line = k
        /\ \A a \in 1..(b - 1) : Braces[a].line # k

\* Line k is not a comment, starts with a closing brace, and that brace has
\* a matching opening brace.
MatchedCloser(k) ==
    /\ ~Tagged(k)
    /\ StartsWithClose(Line(k))
    /\ Openers(FirstBrace(k)) # {}

\* The brace that matches the closing brace line k starts with, and its line.
Opener(k) == Max(Openers(FirstBrace(k)))

OpenerLine(k) == Braces[Opener(k)].line

\* The lines of the region that line k closes.
Region(k) == (OpenerLine(k) + 1)..(k - 1)

Depths(K) == {levelsOut[k + 1] : k \in K}

\* On its own line, the matching opening brace of line k has nothing before
\* it but, at most, a closing brace that the line starts with.
OpenerLeads(k) ==
    \A a \in 1..(Opener(k) - 1) :
        Braces[a].line = OpenerLine(k) =>
            /\ ~Braces[a].open
            /\ a = FirstBrace(OpenerLine(k))
            /\ StartsWithClose(Line(OpenerLine(k)))

\* No line of the region that line k closes holds a brace that counts.
PlainRegion(k) ==
    \A j \in Region(k) : Tagged(j) \/ Count(Line(j), "{") + Count(Line(j), "}") = 0

\* C2 as stated: a non-comment line that starts with a closing brace has the
\* recorded depth of the line holding the matching opening brace, and one
\* less than the deepest recorded depth of the lines of the region it closes.
C2_Original ==
    pc = "scanScopeLabels" =>
        \A k \in LineIndexes :
            MatchedCloser(k) =>
                /\ levelsOut[k + 1] = levelsOut[OpenerLine(k) + 1]
                /\ Region(k) # {} => levelsOut[k + 1] = Max(Depths(Region(k))) - 1

\* C2 amended: a non-comment line that starts with a closing brace has the
\* recorded depth of the line holding the matching opening brace when
\* nothing but a leading closing brace precedes that brace on its line; its
\* recorded depth is at least one less than that of every line of the region
\* it closes, and exactly one less than the deepest when no line of the
\* region holds a brace.
C2_CloserDepth ==
    pc = "scanScopeLabels" =>
        \A k \in LineIndexes :
            MatchedCloser(k) =>
                /\ OpenerLeads(k) => levelsOut[k + 1] = levelsOut[OpenerLine(k) + 1]
                /\ \A j \in Region(k) : levelsOut[k + 1] <= levelsOut[j + 1] - 1
                /\ (Region(k) # {} /\ PlainRegion(k)) =>
                       levelsOut[k + 1] = Max(Depths(Region(k))) - 1

\* scanScopeLevels has run over a file with a region inside a region, the
\* inner one opened by a lone brace and closed by a line that starts with
\* a closing brace, with a line between them.
C2_Witness ==
    /\ pc = "scanScopeLabels"
    /\ \E k \in LineIndexes :
          /\ MatchedCloser(k)
          /\ OpenerLeads(k)
          /\ Region(k) # {}
          /\ PlainRegion(k)
          /\ levelsOut[k + 1] >= 1

(***************************************************************************)
(* Well-formed files.                                                      *)
(***************************************************************************)
\* The braces of the lines not tagged as comments are balanced.
Balanced ==
    /\ \A t \in 0..Len(Braces) : Nest(t) >= 0
    /\ Nest(Len(Braces)) = 0

\* The first token of line k starts a block comment; the last token of line
\* k ends one.
OpensComment(k) == stringStartsWith(getFirstToken(Line(k)), C_COMMENT_START)

ClosesComment(k) == stringEndsWith(getLastToken(Line(k)), C_COMMENT_END)

\* Every block comment that is opened is closed on its line or a later one.
CommentsClosed ==
    \A k \in LineIndexes :
        OpensComment(k) => \E j \in k..(NumLines - 1) : ClosesComment(j)

\* The line that carries the last brace of the file.
FinalBraceLine == Braces[Len(Braces)].line

\* C3: for a file whose braces are balanced and whose block comments are
\* closed, once the passes have run the depth of line 0 is 0, every line
\* after the line with the final closing brace has depth 0, and so has that
\* line when the brace is what it starts with.
C3_BalancedDepth ==
    (pc = "ready" /\ Balanced /\ CommentsClosed) =>
        /\ scopeLevels[1] = 0
        /\ Braces # <<>> =>
              /\ \A k \in (FinalBraceLine + 1)..(NumLines - 1) : scopeLevels[k + 1] = 0
              /\ StartsWithClose(Line(FinalBraceLine)) /\ FirstBrace(FinalBraceLine) = Len(Braces)
                     => scopeLevels[FinalBraceLine + 1] = 0

\* The passes have run over a balanced file with its comments closed, in
\* which a label inside braces opened a region and raised a line, and the
\* final closing brace starts its line.
C3_Witness ==
    /\ pc = "ready"
    /\ Balanced
    /\ CommentsClosed
    /\ Braces # <<>>
    /\ StartsWithClose(Line(FinalBraceLine))
    /\ FirstBrace(FinalBraceLine) = Len(Braces)
    /\ \E k \in LineIndexes : scopeLevels[k + 1] = levelsOut[k + 1] + 1

(***************************************************************************)
(* Label lines, told from the text of the line.                            *)
(***************************************************************************)
LabelWords ==
    { <<"c", "a", "s", "e">>,
      <<"d", "e", "f", "a", "u", "l", "t">>,
      <<"p", "u", "b", "l", "i", "c">>,
      <<"p", "r", "i", "v", "a", "t", "e">>,
      <<"p", "r", "o", "t", "e", "c", "t", "e", "d">> }

\* After blanks and tabs the line goes on with the word w, and the word
\* ends there.
BeginsWithWord(line, w) ==
    \E p \in 1..Len(line) :
        /\ \A q \in 1..(p - 1) : line[q] \in {" ", "\t"}
        /\ p + Len(w) - 1 <= Len(line)
        /\ SubSeq(line, p, p + Len(w) - 1) = w
        /\ p + Len(w) <= Len(line) =>
               line[p + Len(w)] \notin (AlphaChars \cup DigitChars \cup {"_"})

\* Line k is a label line: not a comment, and its first token is one of
\* case, default, public, private, protected.
IsLabelLine(k) ==
    /\ ~Tagged(k)
    /\ \E w \in LabelWords : BeginsWithWord(Line(k), w)

\* scanScopeLabels is about to handle line i.
AtLabelsLine == pc = "scanScopeLabelsLoop" /\ i < NumLines

\* While a region is open at line i, it was opened by a label line j whose
\* recorded depth is labelLevel and was left as it was, and every line after
\* j up to line i has a recorded depth not below labelLevel and was raised
\* by exactly one unless it is a label line itself.
OpenRegionRaised ==
    (pc = "scanScopeLabelsLoop" /\ labelLevel # 0) =>
        \E j \in 0..(i - 1) :
            /\ IsLabelLine(j)
            /\ levelsOut[j + 1] = labelLevel
            /\ scopeLevels[j + 1] = levelsOut[j + 1]
            /\ \A k \in (j + 1)..(i - 1) :
                  /\ levelsOut[k + 1] >= labelLevel
                  /\ scopeLevels[k + 1] =
                         levelsOut[k + 1] + (IF IsLabelLine(k) THEN 0 ELSE 1)

\* A step of scanScopeLabels on a label line met with no region open makes
\* the line's recorded depth the labelLevel and leaves the depths alone; a
\* step on a line that is no label line and has a recorded depth not below
\* the labelLevel of an open region raises the depth of that line by one,
\* leaves the other depths alone and keeps the region open.
LabelStepEntersAndRaises ==
    AtLabelsLine =>
        /\ (labelLevel = 0 /\ IsLabelLine(i)) =>
               /\ labelLevel' = scopeLevels[i + 1]
               /\ scopeLevels' = scopeLevels
        /\ (labelLevel # 0 /\ ~IsLabelLine(i) /\ scopeLevels[i + 1] >= labelLevel) =>
               /\ scopeLevels' = [scopeLevels EXCEPT ![i + 1] = scopeLevels[i + 1] + 1]
               /\ labelLevel' = labelLevel

\* C4: in scanScopeLabels, a label line met with no region open makes its
\* recorded depth the labelLevel and keeps its own depth; every following
\* line that is no label line and whose recorded depth is not below
\* labelLevel is raised by exactly one, until the region is left.
C4_LabelRegion == [][LabelStepEntersAndRaises]_vars /\ []OpenRegionRaised

\* scanScopeLabels has entered a region at a label line and raised the two
\* lines after it.
C4_Witness ==
    /\ pc = "scanScopeLabelsLoop"
    /\ labelLevel # 0
    /\ \E j \in 0..(i - 3) :
          /\ IsLabelLine(j)
          /\ levelsOut[j + 1] = labelLevel
          /\ scopeLevels[j + 2] = levelsOut[j + 2] + 1
          /\ scopeLevels[j + 3] = levelsOut[j + 3] + 1

\* A step of scanScopeLabels on a line whose recorded depth is below the
\* labelLevel of an open region closes the region and leaves the depths
\* alone; a step with no region open leaves the depths alone, and opens a
\* region only on a label line.
LabelStepExits ==
    AtLabelsLine =>
        /\ (labelLevel # 0 /\ scopeLevels[i + 1] < labelLevel) =>
               /\ labelLevel' = 0
               /\ scopeLevels' = scopeLevels
        /\ labelLevel = 0 =>
               /\ scopeLevels' = scopeLevels
               /\ labelLevel' # 0 => IsLabelLine(i)

\* C5: the first line of an open region whose recorded depth is below
\* labelLevel sets labelLevel to 0 and keeps its depth, and no later line is
\* raised until a label line opens a region again.
C5_RegionExit == [][LabelStepExits]_vars

\* scanScopeLabels has left a region at a line below the label's depth and
\* has handled a line after it, which is not raised.
C5_Witness ==
    /\ pc = "scanScopeLabelsLoop"
    /\ labelLevel = 0
    /\ \E j \in 0..(i - 3) :
          /\ IsLabelLine(j)
          /\ levelsOut[j + 1] > 0
          /\ levelsOut[j + 2] < levelsOut[j + 1]
          /\ ~IsLabelLine(j + 2)
          /\ scopeLevels[j + 3] = levelsOut[j + 3]

\* C6: for every line, the depth after scanScopeLabels less the depth after
\* scanScopeLevels is 0 or 1, and it is 1 only if the line is no label line
\* and comes after a label line with no line of a recorded depth below the
\* label's between that label line and the line itself.
C6_Adjustment ==
    LevelsDone =>
        \A k \in LineIndexes :
            LET d == scopeLevels[k + 1] - levelsOut[k + 1] IN
            /\ d \in {0, 1}
            /\ d = 1 =>
                  /\ ~IsLabelLine(k)
                  /\ \E j \in 0..(k - 1) :
                        /\ IsLabelLine(j)
                        /\ \A m \in (j + 1)..k : levelsOut[m + 1] >= levelsOut[j + 1]

\* scanScopeLabels has run over a file where it raised a line after a label
\* line and left a later line, which is no label line, as it was.
C6_Witness ==
    /\ pc = "ready"
    /\ \E j, k, m \in LineIndexes :
          /\ j < k /\ k < m
          /\ IsLabelLine(j)
          /\ scopeLevels[k + 1] = levelsOut[k + 1] + 1
          /\ ~IsLabelLine(m)
          /\ scopeLevels[m + 1] = levelsOut[m + 1]

\* C7: a line with recorded depth 0 after scanScopeLevels, a line outside
\* every brace scope, is never raised by scanScopeLabels, also when the
\* braces are not balanced.
C7_TopLevelNotRaised ==
    LevelsDone =>
        \A k \in LineIndexes : levelsOut[k + 1] = 0 => scopeLevels[k + 1] = 0

(***************************************************************************)
(* Comment tags.                                                           *)
(***************************************************************************)
\* scanCommentLines has returned.
CommentsDone == pc \notin {"readFile", "scanCommentLines", "scanCommentLinesLoop"}

\* The first token of line k starts with the line-comment marker.
StartsLineComment(k) == stringStartsWith(getFirstToken(Line(k)), DOUBLE_SLASH)

\* A block comment opened before line k is still open when line k is met.
OpenBefore(k) ==
    \E j \in 0..(k - 1) :
        /\ OpensComment(j)
        /\ \A m \in j..(k - 1) : ~ClosesComment(m)

\* C8: from a line whose first token starts with the block-comment-open
\* marker up to and including the first line, that one or a later one, whose
\* last token ends with the close marker, every line is tagged as a comment;
\* the line after the closing line is tagged NO_COMMENT unless it starts a
\* comment itself.
C8_BlockTagged ==
    CommentsDone =>
        \A k \in LineIndexes : \A c \in k..(NumLines - 1) :
            (/\ OpensComment(k)
             /\ ClosesComment(c)
             /\ \A m \in k..(c - 1) : ~ClosesComment(m)) =>
                /\ \A m \in k..c : Tagged(m)
                /\ (/\ c + 1 < NumLines
                    /\ ~OpensComment(c + 1)
                    /\ ~StartsLineComment(c + 1)) =>
                       commentLines[c + 2] = NO_COMMENT

\* scanCommentLines has run over a block comment of three lines, opened on
\* the first and closed on the third, with a line of code after it.
C8_Witness ==
    /\ CommentsDone
    /\ \E k \in LineIndexes :
          /\ k + 3 < NumLines
          /\ OpensComment(k)
          /\ ~ClosesComment(k)
          /\ ~ClosesComment(k + 1)
          /\ ClosesComment(k + 2)
          /\ commentLines[k + 3] = C_COMMENT
          /\ commentLines[k + 4] = NO_COMMENT

\* C9: no line met while a block comment is open ends with the tag
\* CPP_COMMENT.
C9_NoLineCommentInBlock ==
    CommentsDone =>
        \A k \in LineIndexes : OpenBefore(k) => commentLines[k + 1] # CPP_COMMENT

\* C10: every line whose first token starts with the line-comment marker
\* ends tagged CPP_COMMENT, whether a block comment is open at it or not,
\* and the flag carried from line to line is that of the open and close
\* markers met so far, whatever was tagged.
C10_LineCommentWins ==
    /\ pc = "scanCommentLinesLoop" =>
          /\ inCstyleComment = OpenBefore(i)
          /\ \A k \in 0..(i - 1) :
                StartsLineComment(k) => commentLines[k + 1] = CPP_COMMENT
    /\ CommentsDone =>
          \A k \in LineIndexes :
              StartsLineComment(k) => commentLines[k + 1] = CPP_COMMENT

\* scanCommentLines has tagged a line as a line comment inside an open
\* block comment, and the line after it as part of the block comment.
C10_Witness ==
    /\ CommentsDone
    /\ \E k \in LineIndexes :
          /\ k + 1 < NumLines
          /\ OpenBefore(k)
          /\ StartsLineComment(k)
          /\ commentLines[k + 1] = CPP_COMMENT
          /\ ~ClosesComment(k)
          /\ ~OpensComment(k + 1)
          /\ commentLines[k + 2] = C_COMMENT

\* C11: between two lines tagged C_COMMENT, a line tagged NO_COMMENT is
\* found only after a line, from the first of the two on, whose last token
\* ends with the block-comment-close marker.
C11_Contiguous ==
    CommentsDone =>
        \A a, k, b \in LineIndexes :
            (/\ a < k /\ k < b
             /\ commentLines[a + 1] = C_COMMENT
             /\ commentLines[b + 1] = C_COMMENT
             /\ commentLines[k + 1] = NO_COMMENT) =>
                \E m \in a..(k - 1) : ClosesComment(m)

\* scanCommentLines has run over a block comment that is closed, a line of
\* code, and a block comment again.
C11_Witness ==
    /\ CommentsDone
    /\ \E a, k, b \in LineIndexes :
          /\ a < k /\ k < b
          /\ commentLines[a + 1] = C_COMMENT
          /\ commentLines[b + 1] = C_COMMENT
          /\ commentLines[k + 1] = NO_COMMENT

\* C12: when a line's first token starts with the block-comment-open marker
\* and no line from it to the end of the file has a last token that ends
\* with the close marker, every line from it to the end of the file is
\* tagged C_COMMENT.
C12_UnterminatedTagged ==
    CommentsDone =>
        \A k \in LineIndexes :
            (/\ OpensComment(k)
             /\ \A m \in k..(NumLines - 1) : ~ClosesComment(m)) =>
                \A m \in k..(NumLines - 1) : commentLines[m + 1] = C_COMMENT

\* A step of the second run of scanCommentLines leaves the tags alone.
RescanStepKeepsTags ==
    pc \in {"ready", "rescanCommentLinesLoop"} => commentLines' = commentLines

\* C13: a second run of scanCommentLines over the same lines, made when
\* scopeLevels and newTypes are filled, leaves every line's tag as the first
\* run left it: no step of the second run changes commentLines.
C13_RescanKeepsTags == [][RescanStepKeepsTags]_vars

C13_Witness ==
    /\ pc = "rescanned"
    /\ newTypes # <<>>
    /\ \E k \in LineIndexes : scopeLevels[k + 1] # 0
    /\ \E k \in LineIndexes : commentLines[k + 1] = NO_COMMENT
    /\ \E k \in LineIndexes : commentLines[k + 1] = C_COMMENT
    /\ \E k \in LineIndexes : commentLines[k + 1] = CPP_COMMENT

(***************************************************************************)
(* Notions for the tokenizer, defined on the text of the line alone.       *)
(***************************************************************************)
\* The token a call has just returned.
Returned == tokOut'[Len(tokOut')]

\* The step is a call of getNextToken.
IsCall == tokOut' # tokOut

\* No character of s at or after pos is other than whitespace.
NoNonspaceFrom(s, pos) ==
    \A k \in pos..(Len(s) - 1) : s[k + 1] \in SpaceChars

\* The last call returned the empty token.
EmptyReturned == tokOut # <<>> /\ tokOut[Len(tokOut)] = <<>>

CallEmptyIffExhausted ==
    IsCall =>
        /\ (Returned = <<>>) <=> NoNonspaceFrom(tokLine, tokPos)
        /\ Returned = <<>> => tokPos' = Len(tokLine)
        /\ EmptyReturned => (Returned = <<>> /\ tokPos' = tokPos)

\* C14: a call of getNextToken returns the empty token exactly when the line
\* has no non-whitespace character at or after pos; pos is then left at the
\* end of the line, and a call after one that returned the empty token
\* returns it again and leaves pos as it was.
C14_EmptyIffExhausted == [][CallEmptyIffExhausted]_vars

\* The characters of a word and of a number.
WordChars == AlphaChars \cup DigitChars \cup {"_"}

NumberChars == DigitChars \cup {"."}

\* The position of the first non-space character of s at or after pos; the
\* length of s when there is none.
FirstNonspaceAtOrAfter(s, pos) ==
    LET found == {k \in pos..(Len(s) - 1) : s[k + 1] \notin SpaceChars}
    IN IF found = {} THEN Len(s)
       ELSE CHOOSE k \in found : \A m \in found : k <= m

\* The end of the longest run of characters of the class that starts at
\* position start.
MaxRunEnd(s, start, class) ==
    LET ends == {e \in start..Len(s) :
                    \A k \in start..(e - 1) : s[k + 1] \in class}
    IN CHOOSE e \in ends : \A m \in ends : m <= e

\* The class of run that the character c starts.
RunClass(c) ==
    IF c \in AlphaChars \cup {"_"} THEN WordChars
    ELSE IF c \in DigitChars THEN NumberChars
    ELSE PunctChars

\* The token that begins at the first non-space character at or after pos:
\* its start and its end.
ExpectedToken(s, pos) ==
    LET first == FirstNonspaceAtOrAfter(s, pos)
    IN IF first = Len(s) THEN [start |-> first, end |-> first]
       ELSE [start |-> first,
             end |-> MaxRunEnd(s, first, RunClass(s[first + 1]))]

CallReturnsMaximalRun ==
    IsCall =>
        LET e == ExpectedToken(tokLine, tokPos)
        IN /\ Returned = SubSeq(tokLine, e.start + 1, e.end)
           /\ tokPos' = e.end

ScenarioTokens ==
    << <<"i", "n", "t">>, <<"x">>, <<"=">>, <<"5">>, <<";">> >>

ScenarioTokenized ==
    (tokLine = ScenarioLine /\ tokStart = 0 /\ EmptyReturned) =>
        SubSeq(tokOut, 1, 5) = ScenarioTokens /\ tokOut[6] = <<>>

\* C15: the token a call of getNextToken returns is the maximal run that
\* the first non-space character at or after pos starts: of letters, digits
\* and underscores after a letter or an underscore, of digits and periods
\* after a digit, of punctuation characters after any other character; and
\* the line int x=5; read from position 0 yields int, x, =, 5, ; in order.
C15_MaximalRun == [][CallReturnsMaximalRun]_vars /\ []ScenarioTokenized

C15_Witness ==
    /\ tokLine = ScenarioLine
    /\ tokStart = 0
    /\ EmptyReturned
    /\ Len(tokOut) = 6

\* The tokens returned so far, put together, and the line without its
\* whitespace.
RECURSIVE Concat(_)
Concat(seqs) ==
    IF seqs = <<>> THEN <<>> ELSE seqs[1] \o Concat(Tail(seqs))

WithoutSpaces(s) == SelectSeq(s, LAMBDA c : c \notin SpaceChars)

\* C16: when the calls from position 0 have come to the empty token, the
\* tokens returned, concatenated in order, are the line with its whitespace
\* removed.
C16_TokensRebuildLine ==
    (tokStart = 0 /\ EmptyReturned) => Concat(tokOut) = WithoutSpaces(tokLine)

\* Where the token a call has just returned lies in the line: a start at or
\* after the end of the token before it.
CallMovesRight ==
    (IsCall /\ Returned # <<>>) =>
        /\ tokPos' > tokPos
        /\ tokPos' <= Len(tokLine)
        /\ \E start \in tokPos..(tokPos' - 1) :
               Returned = SubSeq(tokLine, start + 1, tokPos')

PosInLine == tokPos <= Len(tokLine)

\* C17: every non-empty token returned is a substring of the line that
\* starts at or after the position the call before it left and ends at the
\* position this call leaves; pos grows with every non-empty token and
\* stays within the line; so the caller's loop comes to the empty token.
C17_LeftToRight ==
    /\ [][CallMovesRight]_vars
    /\ []PosInLine
    /\ <>EmptyReturned

C17_Witness ==
    /\ EmptyReturned
    /\ Len(tokOut) >= 3
    /\ tokOut[1] # <<>>
    /\ tokOut[2] # <<>>
    /\ \E k \in tokStart..(tokPos - 1) : tokLine[k + 1] \in SpaceChars

(***************************************************************************)
(* Notions for the type registry.                                          *)
(***************************************************************************)
TypesDone ==
    pc \notin {"readFile", "scanCommentLines", "scanCommentLinesLoop",
               "scanNewTypeDefs", "scanNewTypeDefsLoop"}

\* The first token of a line and the token after it, by the text of the
\* line; a token that is not there is empty.
TokenText(s, t) == SubSeq(s, t.start + 1, t.end)

FirstTokenOf(s) == TokenText(s, ExpectedToken(s, 0))

SecondTokenOf(s) == TokenText(s, ExpectedToken(s, ExpectedToken(s, 0).end))

ClassKeywords ==
    { <<"c", "l", "a", "s", "s">>, <<"s", "t", "r", "u", "c", "t">> }

\* Line k is not tagged as a comment and declares the name.
Declares(k, name) ==
    /\ commentLines[k + 1] = NO_COMMENT
    /\ FirstTokenOf(Line(k)) \in ClassKeywords
    /\ SecondTokenOf(Line(k)) = name

\* The names asked about: the names that stand in the lines, a name that
\* stands in none, the keyword itself and the empty token.
TypeNames ==
    { <<"A">>, <<"B">>, <<"C">>, <<"D">>, <<"E">>, <<"F">>, <<"x">>,
      <<"c", "l", "a", "s", "s">>, <<>> }

\* C18: after scanNewTypeDefs, isNewType is true of a name exactly when some
\* line not tagged as a comment has class or struct as its first token and
\* the name as the token after it (the empty token when there is none); a
\* line tagged as a comment declares nothing.
C18_RegistryContents ==
    TypesDone =>
        \A name \in TypeNames :
            isNewType(name) <=> \E k \in LineIndexes : Declares(k, name)

C18_Witness ==
    /\ TypesDone
    /\ isNewType(<<"A">>)
    /\ ~isNewType(<<"E">>)
    /\ \E k \in LineIndexes :
           /\ commentLines[k + 1] # NO_COMMENT
           /\ FirstTokenOf(Line(k)) \in ClassKeywords
           /\ SecondTokenOf(Line(k)) = <<"E">>

(***************************************************************************)
(* Notions for the frame of checkErrors.                                   *)
(***************************************************************************)
\* readFile has returned.
FileRead ==
    pc \in {"ready", "checkFunctionLengthLoop", "checked"}
              \cup {CheckOrder[n] : n \in 1..Len(CheckOrder)}

\* A step taken after readFile has returned leaves the four vectors alone.
CheckStepKeepsFacts ==
    FileRead =>
        /\ fileLines' = fileLines
        /\ commentLines' = commentLines
        /\ scopeLevels' = scopeLevels
        /\ newTypes' = newTypes

\* A step that changes newTypes is a step of the loop of scanNewTypeDefs and
\* appends one entry.
TypesOnlyAppended ==
    newTypes' # newTypes =>
        /\ pc = "scanNewTypeDefsLoop"
        /\ Len(newTypes') = Len(newTypes) + 1
        /\ SubSeq(newTypes', 1, Len(newTypes)) = newTypes

FrameStep == CheckStepKeepsFacts /\ TypesOnlyAppended

\* C19: once readFile has returned, no step of checkErrors changes
\* fileLines, commentLines, scopeLevels or newTypes; and newTypes changes
\* only by an entry appended inside scanNewTypeDefs.
C19_FactsFrozen == [][FrameStep]_vars

C19_Witness ==
    /\ pc = "checked"
    /\ anyErrors
    /\ NO_COMMENT_FIRST_LINE \in printed
    /\ Len(newTypes) = 1
    /\ \E k \in LineIndexes : commentLines[k + 1] # NO_COMMENT
    /\ \E k \in LineIndexes : scopeLevels[k + 1] # 0

(***************************************************************************)
(* Notions for the two passes that follow scanCommentLines.                *)
(***************************************************************************)
\* newTypes when scanNewTypeDefs has run alone over the first n lines.
RECURSIVE TypesAfter(_)
TypesAfter(n) ==
    IF n = 0 THEN <<>>
    ELSE scanNewTypeDefsBody(Line(n - 1), isCommentLine(n - 1),
                             TypesAfter(n - 1))

\* The counter and scopeLevels when scanScopeLevels has run alone over the
\* first n lines.
RECURSIVE LevelsAfter(_)
LevelsAfter(n) ==
    IF n = 0
    THEN [scopeLevel |-> 0, scopeLevels |-> [k \in 1..NumLines |-> 0]]
    ELSE LET before == LevelsAfter(n - 1)
             r == scanScopeLevelsBody(Line(n - 1), commentLines[n],
                                      before.scopeLevel)
         IN [scopeLevel |-> r.scopeLevel,
             scopeLevels |-> [before.scopeLevels EXCEPT ![n] = r.stored]]

\* At every point of the interleaving each pass has what it would have had
\* running alone up to its own line.
PassesIndependent ==
    pc \in {"bothPasses", "bothDone"} =>
        /\ newTypes = TypesAfter(iTypes)
        /\ scopeLevels = LevelsAfter(i).scopeLevels
        /\ scopeLevel = LevelsAfter(i).scopeLevel

\* A step of one pass leaves alone what the other pass writes.
PassStepFrame ==
    pc = "bothPasses" =>
        /\ iTypes' # iTypes =>
               scopeLevels' = scopeLevels /\ scopeLevel' = scopeLevel /\ i' = i
        /\ i' # i => newTypes' = newTypes /\ iTypes' = iTypes

\* C20: after scanCommentLines, in every interleaving of the per-line steps
\* of scanNewTypeDefs and scanScopeLevels (the two orders of running one
\* after the other included), newTypes and scopeLevels are what each pass
\* gives when it runs alone; a step of one pass changes nothing the other
\* writes.
C20_PassesCommute == []PassesIndependent /\ [][PassStepFrame]_vars

\* Both orders of a whole pass after the other, and a mixed order, end here.
C20_Witness ==
    /\ pc = "bothDone"
    /\ Len(newTypes) >= 1
    /\ \E k \in LineIndexes : scopeLevels[k + 1] # 0
    /\ \E k \in LineIndexes : commentLines[k + 1] # NO_COMMENT

(***************************************************************************)
(* Notions for the run-on test.                                            *)
(***************************************************************************)
\* The last non-space character of s is a semicolon.
EndsInSemicolon(s) ==
    \E k \in 1..Len(s) :
        /\ s[k] = ";"
        /\ \A m \in (k + 1)..Len(s) : s[m] \in SpaceChars

HasNonspace(s) == \E k \in 1..Len(s) : s[k] \notin SpaceChars

\* Line n continues the line before it.
ContinuesPrior(n) ==
    /\ n > 0
    /\ scopeLevels[n + 1] = scopeLevels[n]
    /\ commentLines[n] = NO_COMMENT
    /\ HasNonspace(Line(n - 1))
    /\ ~EndsInSemicolon(Line(n - 1))

AskedRunOn == asked # <<>> /\ asked[1] = "mayBeRunOnLine"

\* C21: mayBeRunOnLine(N) is true exactly when N > 0, lines N and N - 1
\* have the same final scope depth, line N - 1 is neither tagged as a
\* comment nor blank, and the last non-space character of line N - 1 is not
\* a semicolon; it is false for line 0.
C21_RunOn ==
    AskedRunOn =>
        /\ answer <=> ContinuesPrior(asked[2])
        /\ asked[2] = 0 => ~answer

C21_Witness ==
    /\ AskedRunOn
    /\ answer
    /\ scopeLevels[asked[2] + 1] # 0

(***************************************************************************)
(* Notions for the function-header test.                                   *)
(***************************************************************************)
\* The tokens of a line from position pos on, by the text of the line.
RECURSIVE TokensFrom(_, _)
TokensFrom(s, pos) ==
    LET t == ExpectedToken(s, pos)
    IN IF t.end = t.start THEN <<>>
       ELSE <<TokenText(s, t)>> \o TokensFrom(s, t.end)

RECURSIVE DropStars(_)
DropStars(toks) ==
    IF toks # <<>> /\ toks[1] = <<"*">> THEN DropStars(Tail(toks)) ELSE toks

\* The tokens that follow the name: after the type, the '*' tokens and one
\* 'Name ::' qualifier are passed over, then the name.
AfterName(toks) ==
    LET rest == DropStars(Tail(toks))
    IN IF Len(rest) >= 2 /\ rest[2] = <<":", ":">>
       THEN SubSeq(rest, 4, Len(rest))
       ELSE SubSeq(rest, 2, Len(rest))

BuiltInTypes ==
    { <<"i", "n", "t">>, <<"f", "l", "o", "a", "t">>,
      <<"d", "o", "u", "b", "l", "e">>, <<"c", "h", "a", "r">>,
      <<"b", "o", "o", "l">>, <<"s", "t", "r", "i", "n", "g">>,
      <<"v", "o", "i", "d">> }

InRegistry(name) == \E t \in 1..Len(newTypes) : newTypes[t] = name

\* The line is a function header, by the types given.
HeaderBy(s, known(_)) ==
    LET toks == TokensFrom(s, 0)
    IN /\ toks # <<>>
       /\ known(toks[1])
       /\ ~EndsInSemicolon(s)
       /\ AfterName(toks) # <<>>
       /\ AfterName(toks)[1][1] = "("

KnownType(t) == t \in BuiltInTypes \/ InRegistry(t)

AskedHeader == asked # <<>> /\ asked[1] = "isFunctionHeader"

\* C22: isFunctionHeader(line) is true exactly when the first token of the
\* line is a built-in type or a name in the type registry, the line does
\* not end in a semicolon, and after the '*' tokens and one 'Name ::'
\* qualifier the token after the name starts with '('.
C22_FunctionHeader ==
    AskedHeader => (answer <=> HeaderBy(Line(asked[2]), KnownType))

(***************************************************************************)
(* Notions for the bounds of the vectors.                                  *)
(***************************************************************************)
CommentLoops ==
    {"scanCommentLinesLoop", "scanNewTypeDefsLoop", "scanScopeLevelsLoop",
     "scanScopeLabelsLoop"}

LevelLoops == {"scanScopeLevelsLoop", "scanScopeLabelsLoop"}

\* The index the next pass of a loop body uses is an index of every vector
\* the pass indexes with it.
LoopIndexInRange ==
    /\ i >= 0
    /\ (pc \in CommentLoops /\ i < Len(fileLines)) =>
           (isCommentLineAssert(i) /\ i < Len(commentLines))
    /\ (pc \in LevelLoops /\ i < Len(fileLines)) => i < Len(scopeLevels)

\* The indexes mayBeRunOnLine(line) and isCommentLine(line) use.
PredicateIndexes(line) == IF line > 0 THEN {line - 1, line} ELSE {line}

PredicateIndexInRange ==
    asked # <<>> =>
        /\ isCommentLineAssert(asked[2])
        /\ \A k \in PredicateIndexes(asked[2]) :
               /\ k + 1 \in DOMAIN fileLines
               /\ k + 1 \in DOMAIN commentLines
               /\ k + 1 \in DOMAIN scopeLevels

OneEntryPerLine ==
    pc = "ready" =>
        /\ Len(commentLines) = Len(fileLines)
        /\ Len(scopeLevels) = Len(fileLines)

\* The assertions of findTokenEnd hold in every call of getNextToken on a
\* line of the file.
TokenAssertsHold ==
    \A k \in LineIndexes :
        \A pos \in 0..Len(Line(k)) : getNextTokenAsserts(Line(k), pos)

\* A step of readFile goes on to the next line of a loop, within the
\* lines of the file, or on to the next statement.
PassAdvances ==
    pc # "ready" => (pc' # pc \/ (i' = i + 1 /\ i' <= Len(fileLines)))

NoAbort ==
    /\ LoopIndexInRange
    /\ PredicateIndexInRange
    /\ OneEntryPerLine
    /\ TokenAssertsHold

\* C23: on every input (the empty file, braces that do not match and
\* comments that are not closed included) the passes and the predicates
\* mayBeRunOnLine and isCommentLine index the vectors within the lines of
\* the file, commentLines and scopeLevels have one entry per line after the
\* passes, the assertions of isCommentLine and findTokenEnd hold at every
\* call, and every step of readFile brings it nearer to its return.
C23_NoAbort == []NoAbort /\ [][PassAdvances]_vars

C23_Witness ==
    /\ pc = "ready"
    /\ asked # <<>>
    /\ inCstyleComment
    /\ \E k \in LineIndexes : scopeLevels[k + 1] < 0
    /\ \E k \in LineIndexes : Line(k) = <<>>

\* With no region open, a step of scanScopeLabels on a label line of
\* recorded depth 0, and a step on a line that is no label line, leave
\* labelLevel at 0 and the depths alone.
ZeroLabelStep ==
    (AtLabelsLine /\ labelLevel = 0) =>
        /\ (IsLabelLine(i) /\ scopeLevels[i + 1] = 0) =>
               (labelLevel' = 0 /\ scopeLevels' = scopeLevels)
        /\ ~IsLabelLine(i) =>
               (labelLevel' = 0 /\ scopeLevels' = scopeLevels)

\* The lines from a label line of depth 0 at the head of the file on, as
\* long as no label line of another depth is met, keep their depths.
ZeroLabelRegion ==
    (LevelsDone /\ IsLabelLine(0)) =>
        \A k \in LineIndexes :
            (\A m \in 0..k : IsLabelLine(m) => levelsOut[m + 1] = 0) =>
                scopeLevels[k + 1] = levelsOut[k + 1]

\* C24: in scanScopeLabels a labelLevel of 0 stands for no open region: a
\* label line of recorded depth 0 met with no region open leaves labelLevel
\* at 0, and the lines after it are not incremented.
C24_ZeroIsNoRegion == [][ZeroLabelStep]_vars /\ []ZeroLabelRegion

C24_Witness ==
    /\ pc = "ready"
    /\ IsLabelLine(0)
    /\ NumLines >= 3
    /\ ~IsLabelLine(1)
    /\ ~IsLabelLine(2)
    /\ levelsOut[3] > 0
    /\ scopeLevels = levelsOut

(***************************************************************************)
(* Notions for the function length check.                                  *)
(***************************************************************************)
BuiltIn(t) == t \in BuiltInTypes

\* Line k is a header that checkFunctionLength measures.
MeasuredHeader(k) ==
    commentLines[k + 1] = NO_COMMENT /\ HeaderBy(Line(k), BuiltIn)

\* Line k is a class or struct header that is not tagged as a comment.
ClassHeaderAt(k) ==
    commentLines[k + 1] = NO_COMMENT /\ FirstTokenOf(Line(k)) \in ClassKeywords

\* A class header at or before line k, and no line of depth 0 after it up
\* to line k.
InClass(k) ==
    \E h \in 0..k :
        /\ ClassHeaderAt(h)
        /\ \A m \in (h + 1)..k : scopeLevels[m + 1] # 0

\* After blanks and tabs line k starts with an opening brace.
StartsWithOpen(k) ==
    \E p \in 1..Len(Line(k)) :
        /\ Line(k)[p] = "{"
        /\ \A q \in 1..(p - 1) : Line(k)[q] \in SpaceChars

\* The lines right after line k that start with an opening brace or lie
\* deeper than line k: how many there are.
BodyLength(k) ==
    LET runs == {n \in 0..(NumLines - 1 - k) :
                    \A m \in (k + 1)..(k + n) :
                        \/ StartsWithOpen(m)
                        \/ scopeLevels[m + 1] > scopeLevels[k + 1]}
    IN CHOOSE n \in runs : \A m \in runs : m <= n

\* A pass of the loop of checkFunctionLength over line i.
LengthStep ==
    (pc = "checkFunctionLengthLoop" /\ i < NumLines) =>
        /\ inClassHeader' <=> InClass(i)
        /\ scopeLevels[i + 1] = 0 => (inClassHeader' <=> ClassHeaderAt(i))
        /\ errorLines' =
               IF /\ MeasuredHeader(i)
                  /\ BodyLength(i) > (IF InClass(i) THEN 1 ELSE 25)
               THEN Append(errorLines, i)
               ELSE errorLines

\* C25: in checkFunctionLength the header at line i is measured against the
\* limit of 1 line exactly when a class or struct header that is no comment
\* stands at a line j <= i with no line of final depth 0 in (j, i], and
\* against 25 otherwise; a line of depth 0, comment or not, clears the flag
\* before its own class-header test; the header is reported exactly when
\* its length is over the limit.
C25_LengthLimit == [][LengthStep]_vars

C25_Witness ==
    /\ pc = "checked"
    /\ errorLines # <<>>
    /\ REPORT \in printed
    /\ \E k \in LineIndexes :
           /\ MeasuredHeader(k)
           /\ InClass(k)
           /\ \A e \in 1..Len(errorLines) : errorLines[e] # k

(***************************************************************************)
(* Label lines inside an open region.                                      *)
(***************************************************************************)
\* A step of scanScopeLabels on a line whose recorded depth is not below the
\* labelLevel of an open region keeps labelLevel; a label line keeps its
\* depth, any other line is raised by one.
InRegionStep ==
    (AtLabelsLine /\ labelLevel # 0 /\ scopeLevels[i + 1] >= labelLevel) =>
        /\ labelLevel' = labelLevel
        /\ scopeLevels' =
               [scopeLevels EXCEPT
                   ![i + 1] = IF IsLabelLine(i) THEN @ ELSE @ + 1]

\* The labelLevel of an open region is the depth of a label line before
\* line i, kept as it was, and no line since had a depth below it.
RegionOpener(j) ==
    /\ IsLabelLine(j)
    /\ levelsOut[j + 1] = labelLevel
    /\ scopeLevels[j + 1] = labelLevel
    /\ \A k \in (j + 1)..(i - 1) : levelsOut[k + 1] >= labelLevel

LabelLevelIsOpener ==
    (pc = "scanScopeLabelsLoop" /\ labelLevel # 0) =>
        \E j \in 0..(i - 1) : RegionOpener(j)

\* C26: while a label region is open, labelLevel keeps the depth of the
\* label line that opened it; a later label line inside the region, also one
\* of a recorded depth above labelLevel, leaves labelLevel alone and keeps
\* its own depth, while the other lines of that depth are raised by one.
C26_LabelLevelKept == [][InRegionStep]_vars /\ []LabelLevelIsOpener

C26_Witness ==
    /\ pc = "ready"
    /\ NumLines >= 4
    /\ IsLabelLine(1) /\ levelsOut[2] = 1 /\ scopeLevels[2] = 1
    /\ IsLabelLine(2) /\ levelsOut[3] = 2 /\ scopeLevels[3] = 2
    /\ ~IsLabelLine(3) /\ levelsOut[4] = 2 /\ scopeLevels[4] = 3
    /\ labelLevel = 1

\* C27: every label line that is no comment and has a non-zero recorded
\* depth governs a region: a line right after it that is no label line and
\* has the same recorded depth is raised by one, also when the label line is
\* the first line below the labelLevel of a region open before it.
C27_EveryLabelGoverns ==
    pc = "ready" =>
        \A k \in LineIndexes :
            (/\ k + 1 < NumLines
             /\ IsLabelLine(k)
             /\ levelsOut[k + 1] # 0
             /\ ~IsLabelLine(k + 1)
             /\ levelsOut[k + 2] = levelsOut[k + 1]) =>
                scopeLevels[k + 2] = levelsOut[k + 2] + 1

\* C28: every entry of newTypes is a non-empty token: a line that is no
\* comment and holds the class or struct keyword alone adds nothing, so
\* isNewType of the empty string is false on every input.
C28_NoEmptyType ==
    /\ \A e \in 1..Len(newTypes) : newTypes[e] # <<>>
    /\ ~isNewType(<<>>)

\* What checkErrors writes other than the success message.
Diagnostics == {NO_COMMENTS_FOUND, NO_COMMENT_FIRST_LINE, REPORT}

\* C29: in one run of checkErrors the success message is printed if and
\* only if no diagnostic was printed before it, be it a report of
\* printErrors or a message of printError.
C29_SuccessIffSilent ==
    pc = "checked" =>
        (NO_ERRORS_FOUND \in printed <=> printed \cap Diagnostics = {})

(***************************************************************************)
(* Notions for the arguments.                                              *)
(***************************************************************************)
\* parseArgs has returned and main has tested exitAfterArgs.
ArgsParsed == pc \in {"printUsage", "exit", "readFile"}

IsOption(arg) == Len(arg) > 0 /\ arg[1] = "-"

\* The argument is one of the two options (what follows the third character
\* is not looked at).
KnownOption(arg) ==
    /\ Len(arg) >= 3
    /\ arg[1] = "-" /\ arg[2] = "f" /\ arg[3] \in {"c", "l"}

\* An option that is unknown or too short, a second file name, or no file
\* name at all.
UsageExpected ==
    \/ \E n \in 1..Len(argv) : IsOption(argv[n]) /\ ~KnownOption(argv[n])
    \/ Cardinality({n \in 1..Len(argv) : ~IsOption(argv[n])}) >= 2
    \/ \A n \in 1..Len(argv) : IsOption(argv[n]) \/ argv[n] = <<>>

\* No assertion of parseFunctionArg has failed.
NoAssertTrip == ~aborted

\* Usage is printed exactly for the argument vectors that call for it.
UsageAsExpected == ArgsParsed => (exitAfterArgs <=> UsageExpected)

\* C30: on every argument vector parseArgs finishes without a failed
\* assertion of parseFunctionArg; an option that is unknown or too short
\* (-f alone), a second file name and a missing file name set exitAfterArgs,
\* so that usage is printed, and nothing else does.
C30_ArgsNeverAbort == NoAssertTrip /\ UsageAsExpected

=========================================================================
